---- MODULE Spec2Model ----
(***************************************************************************)
(* Benchmark harness of the LLM connector hub: the Benchmark Runner        *)
(* (benchmarks/mod.rs), the five Benchmark Targets (adapters/*.rs) with    *)
(* their bridge to the TypeScript suite and their simulated workloads, and *)
(* the statistics each simulated workload reports.                         *)
(***************************************************************************)
EXTENDS Integers, Sequences, FiniteSets, TLC

\* ------------------------------------------------------------------------
\* Bounds of the model
\* ------------------------------------------------------------------------
\* Largest `iterations` / `warmup_iterations` handed to with_iterations.
MaxIter == 2
MaxWarmup == 1
\* Largest number of samples one run_simulated collects over all its phases.
MaxSamples == 8
\* Largest reading (ns) of one Instant::now() .. elapsed() pair.
MaxDuration == 1
\* Longest standard output of the npm subprocess, in tokens.
MaxStdoutLen == 4
\* The registered targets are built by new() (iterations 1000, warm-up 100);
\* the suite is run with these counts scaled down to:
SuiteIter == 1
SuiteWarmup == 1
\* Longest standard output of a subprocess while the whole suite runs.
SuiteStdoutLen == 2
\* Largest number of save_results calls on one output directory.
MaxSaves == 2
\* Longest result sequence written to and read from a JSON file.
MaxResults == 2
\* Latest reading of the clock, in seconds.
MaxClock == 60

Billion == 1000000000

\* ------------------------------------------------------------------------
\* Values
\* ------------------------------------------------------------------------
\* Result<Value>: what run_ts_benchmark, run_simulated and run return.
None == [tag |-> "none"]
Ok(m) == [tag |-> "Ok", val |-> m]
Err(e) == [tag |-> "Err", err |-> e]

\* Tokens of the subprocess's standard output: "x" is any text without
\* braces, "m" is the member text "mean_ns":42, "{" and "}" are the braces.
Chars == {"x", "{", "}", "m"}
Strings(n) == UNION {[1..k -> Chars] : k \in 0..n}

ProviderId == "provider-resolution"
RequestId == "request-transformation"
MiddlewareId == "middleware-pipeline"
CacheId == "cache-operations"
StreamId == "stream-parsing"
\* An implementation of the BenchTarget trait other than the five adapters.
CustomId == "my-benchmark"

AdapterIds == {ProviderId, RequestId, MiddlewareId, CacheId, StreamId}

\* Xxx::with_iterations(iterations, warmup_iterations)
with_iterations(id, iterations, warmup) ==
    [id |-> id, iterations |-> iterations, warmup_iterations |-> warmup]

\* Xxx::new(), with the default counts scaled to the suite bounds.
new(id) == with_iterations(id, SuiteIter, SuiteWarmup)

\* all_targets(): the registry, in registration order.
\* all_targets() with cache-operations registered in the place of
\* middleware-pipeline as well.
all_targets_Duplicate ==
    << new(ProviderId), new(RequestId), new(CacheId), new(CacheId),
       new(StreamId) >>

all_targets ==
    << new(ProviderId), new(RequestId), new(MiddlewareId), new(CacheId),
       new(StreamId) >>

\* ------------------------------------------------------------------------
\* serde_json and str helpers used by run_ts_benchmark
\* ------------------------------------------------------------------------
\* str::find(c): index of the first occurrence, 0 for None.
find(s, c) ==
    IF \E i \in 1..Len(s) : s[i] = c
    THEN CHOOSE i \in 1..Len(s) : s[i] = c /\ \A j \in 1..(i - 1) : s[j] # c
    ELSE 0

\* str::rfind(c): index of the last occurrence, 0 for None.
rfind(s, c) ==
    IF \E i \in 1..Len(s) : s[i] = c
    THEN CHOOSE i \in 1..Len(s) : s[i] = c /\ \A j \in (i + 1)..Len(s) : s[j] # c
    ELSE 0

\* &stdout[a..=b] panics when a > b + 1 (slice index starts after its end).
SlicePanics(a, b) == a > b + 1
\* The slice without its last character (a..b instead of a..=b).
Slice_Exclusive(s, a, b) == SubSeq(s, a, b - 1)
Slice(s, a, b) == SubSeq(s, a, b)

\* serde_json::from_str::<Value>: Ok for the texts that are JSON values over
\* the tokens: the objects {} and {"mean_ns":42}.
ParsedEmpty == << >>
ParsedMean == [mean_ns |-> 42]
from_str(s) ==
    IF s = <<"{", "}">> THEN Ok(ParsedEmpty)
    ELSE IF s = <<"{", "m", "}">> THEN Ok(ParsedMean)
    ELSE Err("expected value")

\* ------------------------------------------------------------------------
\* Metrics built by run_ts_benchmark
\* ------------------------------------------------------------------------
NoteOf(id) ==
    IF id \in {ProviderId, RequestId}
    THEN "TypeScript benchmark not available, showing bridge overhead only"
    ELSE "TypeScript benchmark not available"

\* UnavailableMetrics flagged as a failure.
UnavailableMetrics_Failed(id, elapsed) ==
    [status |-> "failed",
     rust_bridge_overhead_ns |-> elapsed,
     note |-> NoteOf(id)]

UnavailableMetrics(id, elapsed) ==
    [status |-> "ts_benchmark_unavailable",
     rust_bridge_overhead_ns |-> elapsed,
     note |-> NoteOf(id)]

\* elapsed.as_millis() of a reading in nanoseconds
as_millis(ns) == ns \div 1000000

CompletedMetrics(id, elapsed) ==
    IF id \in {ProviderId, RequestId}
    THEN [bridge_execution_ns |-> elapsed,
          bridge_execution_ms |-> as_millis(elapsed),
          status |-> "completed",
          source |-> "rust_bridge"]
    ELSE [bridge_execution_ns |-> elapsed,
          status |-> "completed",
          source |-> "rust_bridge"]

\* The outcome of the code after `.output().await` returned Ok(output):
\* "panic" or the Result the function returns.
ParsesStdout(id) == id # StreamId

BridgeOutcome(id, success, stdout, elapsed) ==
    IF ~success THEN Ok(UnavailableMetrics(id, elapsed))
    ELSE IF ~ParsesStdout(id) THEN Ok(CompletedMetrics(id, elapsed))
    ELSE LET json_start == find(stdout, "{")
             json_end == rfind(stdout, "}")
         IN IF json_start # 0 /\ json_end # 0
            THEN IF SlicePanics(json_start, json_end)
                 THEN [tag |-> "panic"]
                 ELSE LET r == from_str(Slice(stdout, json_start, json_end))
                      IN IF r.tag = "Ok" THEN r
                         ELSE Ok(CompletedMetrics(id, elapsed))
            ELSE Ok(CompletedMetrics(id, elapsed))

\* ------------------------------------------------------------------------
\* Sample statistics of run_simulated
\* ------------------------------------------------------------------------
RECURSIVE Sum(_)
\* times.iter().sum::<u64>()
Sum(s) == IF s = << >> THEN 0 ELSE Head(s) + Sum(Tail(s))

RECURSIVE Insert(_, _)
Insert(x, s) ==
    IF s = << >> THEN << x >>
    ELSE IF x <= Head(s) THEN << x >> \o s
    ELSE << Head(s) >> \o Insert(x, Tail(s))

\* Sort leaving the samples in the order they were pushed.
Sort_Missing(s) == s

RECURSIVE Sort(_)
\* times.sort(): ascending
Sort(s) == IF s = << >> THEN << >> ELSE Insert(Head(s), Sort(Tail(s)))

\* (len as f64 * 0.95) as usize and (len as f64 * 0.99) as usize: the f64
\* product truncated toward zero, which is floor(len * pct / 100) for every
\* len up to 2 * 10^6; len / 2 for the median.  Zero-based.
PercentileIndex(len, pct) == (len * pct) \div 100

\* times[i] with a zero-based i: Rust panics when i >= len.
IndexPanics(s, i) == i < 0 \/ i >= Len(s)
At(s, i) == s[i + 1]

\* sum / len as u64: integer division, which panics when len is 0.
MeanPanics(s) == Len(s) = 0
Mean(s) == Sum(s) \div Len(s)

\* 1_000_000_000.0 / mean as f64 (times `scale`): an f64 division, which
\* gives infinity for a zero divisor; json! stores a non-finite f64 as null.
Throughput(divisor, scale) ==
    [dividend |-> Billion, divisor |-> divisor, scale |-> scale,
     json |-> IF divisor = 0 THEN "null" ELSE "number"]

\* (pipeline_mean - single_mean) / 4 on u64: the subtraction underflows when
\* pipeline_mean < single_mean; a build with overflow checks panics, a build
\* without them wraps modulo 2^64.  The wrapped quotient
\* (2^64 - d) / 4 = 2^62 - ceil(d / 4) is written as the negative number
\* -ceil(d / 4).
SubUnderflows(a, b) == a < b
WrappedQuarter(a, b) == 0 - (((b - a) + 3) \div 4)
OverheadPerMiddleware(pipeline_mean, single_mean) ==
    IF SubUnderflows(pipeline_mean, single_mean)
    THEN WrappedQuarter(pipeline_mean, single_mean)
    ELSE (pipeline_mean - single_mean) \div 4

\* The phases (sample sets) of each adapter's run_simulated, in the order
\* their timed loops run.
Phases(id) ==
    CASE id = ProviderId -> << "times" >>
      [] id = RequestId -> << "request_times", "response_times" >>
      [] id = MiddlewareId -> << "single_times", "pipeline_times" >>
      [] id = CacheId ->
            << "keygen_times", "set_times", "get_hit_times", "get_miss_times" >>
      [] id = StreamId -> << "parse_times", "aggregate_times" >>
      [] OTHER -> << >>

PhaseSet(id) == {Phases(id)[k] : k \in 1..Len(Phases(id))}

\* chunks.len() of the stream-parsing sample stream
ChunksPerStream == 4

P99(s) == At(s, PercentileIndex(Len(s), 99))

\* The top-level mean_ns of the adapters with several phases.
RequestTopMean(req_mean, resp_mean) == (req_mean + resp_mean) \div 2
\* CacheTopMean dividing by the number of phases of the benchmark.
CacheTopMean_ByFour(keygen_mean, set_mean, get_hit_mean) ==
    (keygen_mean + set_mean + get_hit_mean) \div 4
CacheTopMean(keygen_mean, set_mean, get_hit_mean) ==
    (keygen_mean + set_mean + get_hit_mean) \div 3

ProviderMetrics(t, times) ==
    LET s == Sort(times["times"])
        len == Len(s)
        mean == Mean(s)
        p50 == At(s, len \div 2)
        p95 == At(s, PercentileIndex(len, 95))
        p99 == At(s, PercentileIndex(len, 99))
    IN [iterations |-> t.iterations,
        warmup_iterations |-> t.warmup_iterations,
        mean_ns |-> mean, median_ns |-> p50, p50_ns |-> p50,
        p95_ns |-> p95, p99_ns |-> p99,
        min_ns |-> At(s, 0), max_ns |-> At(s, len - 1),
        throughput |-> Throughput(mean, 1),
        status |-> "simulated"]

RequestMetrics(t, times) ==
    LET req == Sort(times["request_times"])
        resp == Sort(times["response_times"])
        req_mean == Mean(req)
        resp_mean == Mean(resp)
        len == Len(req)
        req_p99 == At(req, PercentileIndex(len, 99))
        resp_p99 == At(resp, PercentileIndex(len, 99))
    IN [iterations |-> t.iterations,
        request_transform |->
            [mean_ns |-> req_mean, p99_ns |-> req_p99,
             min_ns |-> At(req, 0), max_ns |-> At(req, len - 1),
             throughput |-> Throughput(req_mean, 1)],
        response_transform |->
            [mean_ns |-> resp_mean, p99_ns |-> resp_p99,
             min_ns |-> At(resp, 0), max_ns |-> At(resp, len - 1),
             throughput |-> Throughput(resp_mean, 1)],
        mean_ns |-> RequestTopMean(req_mean, resp_mean),
        p99_ns |-> (req_p99 + resp_p99) \div 2,
        throughput |-> Throughput((req_mean + resp_mean) \div 2, 1),
        status |-> "simulated"]

MiddlewareMetrics(t, times) ==
    LET single == Sort(times["single_times"])
        pipeline == Sort(times["pipeline_times"])
        single_mean == Mean(single)
        pipeline_mean == Mean(pipeline)
        len == Len(single)
    IN [iterations |-> t.iterations,
        single_middleware |->
            [mean_ns |-> single_mean, p99_ns |-> P99(single),
             min_ns |-> At(single, 0), max_ns |-> At(single, len - 1)],
        pipeline_5_middlewares |->
            [mean_ns |-> pipeline_mean, p99_ns |-> P99(pipeline),
             min_ns |-> At(pipeline, 0), max_ns |-> At(pipeline, len - 1),
             overhead_per_middleware_ns |->
                 OverheadPerMiddleware(pipeline_mean, single_mean)],
        mean_ns |-> pipeline_mean,
        p99_ns |-> P99(pipeline),
        throughput |-> Throughput(pipeline_mean, 1),
        status |-> "simulated"]

CacheMetrics(t, times) ==
    LET keygen == Sort(times["keygen_times"])
        set == Sort(times["set_times"])
        get_hit == Sort(times["get_hit_times"])
        get_miss == Sort(times["get_miss_times"])
        len == Len(keygen)
        keygen_mean == Mean(keygen)
        set_mean == Mean(set)
        get_hit_mean == Mean(get_hit)
        get_miss_mean == Mean(get_miss)
    IN [iterations |-> t.iterations,
        key_generation |->
            [mean_ns |-> keygen_mean, p99_ns |-> P99(keygen),
             min_ns |-> At(keygen, 0), max_ns |-> At(keygen, len - 1)],
        set_operation |->
            [mean_ns |-> set_mean, p99_ns |-> P99(set),
             throughput |-> Throughput(set_mean, 1)],
        get_hit |->
            [mean_ns |-> get_hit_mean, p99_ns |-> P99(get_hit),
             throughput |-> Throughput(get_hit_mean, 1)],
        get_miss |->
            [mean_ns |-> get_miss_mean, p99_ns |-> P99(get_miss),
             throughput |-> Throughput(get_miss_mean, 1)],
        mean_ns |-> CacheTopMean(keygen_mean, set_mean, get_hit_mean),
        throughput |-> Throughput(get_hit_mean, 1),
        status |-> "simulated"]

StreamMetrics(t, times) ==
    LET parse == Sort(times["parse_times"])
        aggregate == Sort(times["aggregate_times"])
        len == Len(parse)
        parse_mean == Mean(parse)
        aggregate_mean == Mean(aggregate)
    IN [iterations |-> t.iterations,
        chunks_per_stream |-> ChunksPerStream,
        chunk_parsing |->
            [mean_ns |-> parse_mean, p99_ns |-> P99(parse),
             min_ns |-> At(parse, 0), max_ns |-> At(parse, len - 1),
             per_chunk_ns |-> parse_mean \div ChunksPerStream],
        stream_aggregation |->
            [mean_ns |-> aggregate_mean, p99_ns |-> P99(aggregate),
             min_ns |-> At(aggregate, 0), max_ns |-> At(aggregate, len - 1)],
        mean_ns |-> parse_mean,
        p99_ns |-> P99(parse),
        throughput |-> Throughput(parse_mean, ChunksPerStream),
        status |-> "simulated"]

SimulatedMetrics(t, times) ==
    CASE t.id = ProviderId -> ProviderMetrics(t, times)
      [] t.id = RequestId -> RequestMetrics(t, times)
      [] t.id = MiddlewareId -> MiddlewareMetrics(t, times)
      [] t.id = CacheId -> CacheMetrics(t, times)
      [] t.id = StreamId -> StreamMetrics(t, times)

\* The statements between the sorts and the json! of run_simulated panic
\* when a mean divides by a zero length or an index is outside its vector.
StatisticsPanic(t, times) ==
    \/ \E p \in PhaseSet(t.id) : MeanPanics(times[p])
    \/ \E p \in PhaseSet(t.id) :
          \E pct \in {50, 95, 99} :
             IndexPanics(times[p], PercentileIndex(Len(times[p]), pct))

\* ------------------------------------------------------------------------
\* The in-memory cache of the cache-operations workload
\* ------------------------------------------------------------------------
RECURSIVE Xor(_, _)
\* bitwise exclusive or of two naturals
Xor(a, b) ==
    IF a = 0 THEN b
    ELSE IF b = 0 THEN a
    ELSE ((a + b) % 2) + 2 * Xor(a \div 2, b \div 2)

\* generate_cache_key(seed): hash = seed.wrapping_mul(0x5bd1e995);
\* hash ^= hash >> 15; format!("cache:provider:model:{:08x}", hash).
\* The 32-bit hash is kept as its two 16-bit halves << high, low >>; seeds
\* stay below 2^15, so the partial products fit the checker's integers.
HashMulHigh == 23505
HashMulLow == 59797
Half == 65536
generate_cache_key(seed) ==
    LET low_product == seed * HashMulLow
        low == low_product % Half
        high == (seed * HashMulHigh + low_product \div Half) % Half
        \* hash >> 15
        shifted == high * 2 + low \div 32768
        shifted_high == shifted \div Half
        shifted_low == shifted % Half
    IN [prefix |-> "cache:provider:model:",
        hex |-> << Xor(high, shifted_high), Xor(low, shifted_low) >>]

\* nonexistent_key giving the key generated for the same seed.
nonexistent_key_Generated(i) == generate_cache_key(i)

\* format!("nonexistent-key-{}", i)
nonexistent_key(i) == [prefix |-> "nonexistent-key-", hex |-> << 0, i >>]

\* HashMap::insert(key, value): the map as a function from keys to values.
MapInsert(map, key, value) ==
    [k \in (DOMAIN map) \cup {key} |-> IF k = key THEN value ELSE map[k]]

\* HashMap::get(key): Some(value) or None
MapGet(map, key) ==
    IF key \in DOMAIN map THEN [some |-> TRUE, value |-> map[key]]
    ELSE [some |-> FALSE, value |-> << >>]

EmptyMap == << >>

\* ------------------------------------------------------------------------
\* State
\* ------------------------------------------------------------------------
VARIABLES
    targets,   \* the registry the runner iterates: all_targets()
    world,     \* the environment: bounds of the clock readings and of npm's output
    idx,       \* run_all_benchmarks: position of the `for target in targets` loop
    results,   \* run_all_benchmarks: the results vector
    now,       \* Utc::now(), as a logical clock
    rpc,       \* run_all_benchmarks: "loop", "awaiting", "returned", "panicked"
    tpc,       \* position inside the awaited target.run()
    bridge,    \* run_ts_benchmark: what the function has seen so far
    ret,       \* the Result the current run / run_ts_benchmark has produced
    sim,       \* run_simulated: its locals
    trace,     \* the states of the current run, in the order they were entered
    attempts,  \* how often the current run tried to start the benchmark subprocess
    cli,       \* the run_benchmarks process: its arguments, position and exit code
    fs,        \* the files under <base>/benchmarks/output
    clock,     \* Utc::now() in whole seconds, as save_results reads it
    io,        \* the last call of a function of benchmarks/io.rs and what it returned
    tel,       \* a SpanAdapter of adapters/telemetry.rs and its last call
    cfg        \* a ConfigAdapter of adapters/config.rs and its last call

vars ==
    << targets, world, idx, results, now, rpc, tpc, bridge, ret, sim, trace,
       attempts, cli, fs, clock, io, tel, cfg >>

\* The variables of the command line and of the result store.
\* and the two adapters of crates/core.
store == << cli, fs, clock, io, tel, cfg >>

NoBridge ==
    [node_modules |-> "unchecked", install |-> "none", spawn |-> "none",
     success |-> FALSE, stdout |-> << >>, elapsed |-> 0]

\* `raw` keeps the samples in the order they were pushed, `runs` counts the
\* calls of run_simulated in the current run: neither is read by the code.
NoSim == [times |-> << >>, raw |-> << >>, cache |-> EmptyMap, phase |-> 0,
          i |-> 0, last_get |-> "none", runs |-> 0]

\* The runner called as a library function: no process of the command line.
NoCli ==
    [pc |-> "off", args |-> [command |-> "none"], by_id |-> FALSE,
     target_ids |-> << >>, save |-> FALSE, saved |-> "none", exit |-> "running"]

\* No function of io.rs was called yet.  `saves` counts the calls of
\* save_results, `oks` those that returned Ok, `written` lists the clock
\* readings of the history files in the order they were written and `last`
\* is the most recent call of save_results: none is read by the code.
NoIo == [saves |-> 0, oks |-> 0, written |-> << >>, last |-> [op |-> "none"],
         call |-> [op |-> "none"]]

\* SpanAdapter::new(): telemetry enabled, environment "production", no active
\* span.  `issued` is the set of span ids start_provider_span returned (the
\* identifiers drawn so far), `finished` the set of ids for which finish_span
\* returned Ok while telemetry was enabled, `records` counts the record_* calls
\* that changed a span and `call` is the last call: none is a field of the
\* adapter.
NoTel ==
    [enabled |-> TRUE, environment |-> "production", active_spans |-> EmptyMap,
     issued |-> {}, finished |-> {}, records |-> 0, call |-> [op |-> "none"]]

\* ConfigAdapter::new(): environment Production, empty cache.  `requested` is
\* the set of providers asked for since the last set_environment and `call` is
\* the last call: neither is read by the code.
NoCfg ==
    [namespace |-> "connector-hub", environment |-> "production",
     cache |-> EmptyMap, requested |-> {}, call |-> [op |-> "none"]]

\* The target whose run is awaited.
Cur == targets[idx]

\* The environment of a run of one engineered target, and of a suite run.
\* A world gives the smallest and largest reading of the clock and the
\* length of the longest text a subprocess prints.
FullWorld == [min_reading |-> 0, max_reading |-> MaxDuration,
              max_stdout |-> MaxStdoutLen]
SuiteTick == 1
SuiteWorld == [min_reading |-> SuiteTick, max_reading |-> SuiteTick,
               max_stdout |-> SuiteStdoutLen]
\* start.elapsed().as_nanos() as u64: the readings the clock may give
Readings == world.min_reading..world.max_reading
\* String::from_utf8_lossy(&output.stdout): the texts a subprocess may print
Outputs == Strings(world.max_stdout)

\* ------------------------------------------------------------------------
\* The result store (benchmarks/io.rs): paths, documents, files
\* ------------------------------------------------------------------------
\* File names are byte strings: sequences of character codes.
Digit(d) == 48 + d

\* A two-digit field of the timestamp without its leading zero.
TwoDigits_Unpadded(n) ==
    IF n < 10 THEN << Digit(n) >> ELSE << Digit((n \div 10) % 10), Digit(n % 10) >>

\* A zero-padded two-digit field of chrono's format: %M, %S.
TwoDigits(n) == << Digit((n \div 10) % 10), Digit(n % 10) >>

\* "results-"
ResultsPrefix == << 114, 101, 115, 117, 108, 116, 115, 45 >>
\* ".json"
JsonSuffix == << 46, 106, 115, 111, 110 >>
\* "19700101_00": %Y%m%d_%H of the first hour of the clock
DateHour == << 49, 57, 55, 48, 48, 49, 48, 49, 95, 48, 48 >>

\* format_timestamp with the precision of a minute: "%Y%m%d_%H%M".
format_timestamp_Minutes(secs) == DateHour \o TwoDigits((secs \div 60) % 60)

\* chrono::Utc::now().format("%Y%m%d_%H%M%S") of a clock reading in seconds
format_timestamp(secs) ==
    DateHour \o TwoDigits((secs \div 60) % 60) \o TwoDigits(secs % 60)

\* raw_dir.join(format!("results-{}.json", timestamp))
json_path(secs) == ResultsPrefix \o format_timestamp(secs) \o JsonSuffix

\* raw_dir.join("results-latest.json")
latest_path == ResultsPrefix \o << 108, 97, 116, 101, 115, 116 >> \o JsonSuffix

\* Other files somebody left in the raw directory: "notes.txt", "a.json"
notes_path == << 110, 111, 116, 101, 115, 46, 116, 120, 116 >>
other_json_path == << 97 >> \o JsonSuffix

\* Path::extension(): the bytes after the last "." of the file name, none
\* when there is no "." after the first byte.
extension(name) ==
    LET dots == {i \in 2..Len(name) : name[i] = 46}
    IN IF dots = {} THEN << >>
       ELSE SubSeq(name, (CHOOSE i \in dots : \A j \in dots : j <= i) + 1, Len(name))

RECURSIVE LexLess(_, _)
\* Ord of two paths of the same directory: byte-wise, a prefix first.
LexLess(a, b) ==
    IF b = << >> THEN FALSE
    ELSE IF a = << >> THEN TRUE
    ELSE IF Head(a) # Head(b) THEN Head(a) < Head(b)
    ELSE LexLess(Tail(a), Tail(b))

RECURSIVE SortPaths(_)
\* files.sort()
SortPaths(names) ==
    IF names = {} THEN << >>
    ELSE LET first == CHOOSE n \in names : \A m \in names \ {n} : LexLess(n, m)
         IN << first >> \o SortPaths(names \ {first})

\* A file that does not exist, and a file cut short by a failed write.
Absent == [json |-> "absent"]
Truncated == [json |-> "invalid"]

\* DateTime<Utc> is an instant in nanoseconds.  Its serde form is the
\* RFC 3339 text with as many fraction digits (0, 3, 6 or 9) as the instant
\* needs: seconds, the number of fraction digits, the fraction.
FractionDigits(nanos) ==
    IF nanos = 0 THEN 0
    ELSE IF nanos % 1000000 = 0 THEN 3
    ELSE IF nanos % 1000 = 0 THEN 6
    ELSE 9

Pow10(k) == CASE k = 0 -> 1 [] k = 3 -> 1000 [] k = 6 -> 1000000 [] k = 9 -> Billion

\* to_rfc3339 keeping milliseconds only.
to_rfc3339_Millis(t) ==
    [secs |-> t \div Billion, digits |-> 3, frac |-> (t % Billion) \div 1000000]

to_rfc3339(t) ==
    LET nanos == t % Billion
        digits == FractionDigits(nanos)
    IN [secs |-> t \div Billion, digits |-> digits,
        frac |-> nanos \div Pow10(9 - digits)]

\* DateTime::parse of the text: an error for a text that is not a date.
parse_rfc3339(text) ==
    IF /\ DOMAIN text = {"secs", "digits", "frac"}
       /\ text.digits \in {0, 3, 6, 9}
       /\ text.frac < Pow10(text.digits)
    THEN Ok(text.secs * Billion + text.frac * Pow10(9 - text.digits))
    ELSE Err("invalid date")

\* An f64 is written as its shortest decimal text that reads back exactly
\* under correct rounding.  The divisors d below 100 for which that text of
\* 1e9 / d has a 17-digit significand above 2^53 that the two-step parsing
\* (significand as f64, then one division by a power of ten) rounds to the
\* neighbouring f64: 1e9 / 63 is written 15873015.873015873 and read back
\* as 15873015.873015871.
LongSignificand == {63, 70, 76, 87, 89, 98}

\* The text of a number: null for the Value a non-finite f64 became, else
\* the digits of the quotient.
write_f64(x) ==
    [text |-> IF x.json = "null" THEN "null" ELSE "digits",
     of |-> << x.dividend, x.divisor, x.scale >>]

\* The number read from the text.  serde_json parses a float with correct
\* rounding when it is built with float_roundtrip, and in two roundings
\* otherwise, which lands one unit in the last place off for the texts
\* of LongSignificand.
parse_f64(t, float_roundtrip) ==
    IF t.text = "null" THEN Throughput(t.of[2], t.of[3])
    ELSE IF float_roundtrip \/ ~(t.of[1] = Billion /\ t.of[3] = 1
                                    /\ t.of[2] \in LongSignificand)
    THEN Throughput(t.of[2], t.of[3])
    ELSE [Throughput(t.of[2], t.of[3]) EXCEPT !.json = "neighbour"]

\* The metrics' entries that hold an f64; integers and strings are written
\* and read character by character.
IsF64(key) == key = "throughput"

write_value(m) ==
    [k \in DOMAIN m |-> IF IsF64(k) THEN write_f64(m[k]) ELSE m[k]]

parse_value(m, float_roundtrip) ==
    [k \in DOMAIN m |-> IF IsF64(k) THEN parse_f64(m[k], float_roundtrip)
                        ELSE m[k]]

\* serde_json::to_string_pretty(results): a JSON array with one object per
\* result, the metrics Value as JSON text, the timestamp as RFC 3339 text.
to_string_pretty(rs) ==
    [json |-> "array",
     items |-> [i \in 1..Len(rs) |->
                   [target_id |-> rs[i].target_id,
                    metrics |-> write_value(rs[i].metrics),
                    timestamp |-> to_rfc3339(rs[i].timestamp)]]]

\* serde_json::from_str::<Vec<BenchmarkResult>>(&json): every element must
\* be an object with the three fields of the struct, the timestamp a date.
ElementMatches(item) ==
    /\ {"target_id", "metrics", "timestamp"} \subseteq DOMAIN item
    /\ parse_rfc3339(item.timestamp).tag = "Ok"

from_str_results(doc, float_roundtrip) ==
    IF /\ doc.json = "array"
       /\ \A i \in 1..Len(doc.items) : ElementMatches(doc.items[i])
    THEN Ok([i \in 1..Len(doc.items) |->
                [target_id |-> doc.items[i].target_id,
                 metrics |-> parse_value(doc.items[i].metrics, float_roundtrip),
                 timestamp |-> parse_rfc3339(doc.items[i].timestamp).val]])
    ELSE Err("Failed to deserialize benchmark results")

\* The outcomes of fs::write(path, text): written, refused with the file as
\* it was, or failed after the file was cut.
WriteOutcomes == {"ok", "refused", "cut"}
fs_write(old, text, outcome) ==
    CASE outcome = "ok" -> text
      [] outcome = "refused" -> old
      [] outcome = "cut" -> Truncated

\* The files: the two directories, summary.md, the files of the raw
\* directory by name, and one file outside the output directories.
EmptyFs ==
    [output_dir |-> FALSE, raw_dir |-> FALSE, summary |-> Absent,
     raw |-> << >>, scratch |-> Absent]

RawFile(f, name) == IF name \in DOMAIN f.raw THEN f.raw[name] ELSE Absent

\* write_results_json(results, path): Ok(()) or the error of fs::write.
write_results_json(old, rs, outcome) ==
    [file |-> fs_write(old, to_string_pretty(rs), outcome),
     ret |-> IF outcome = "ok" THEN Ok("unit")
             ELSE Err("Failed to write results")]

\* read_results_json(path)
read_results_json(file, float_roundtrip) ==
    IF file = Absent THEN Err("Failed to read results")
    ELSE from_str_results(file, float_roundtrip)

\* generate_markdown_report(results, title): one section per result with its
\* status, its identifier and the well-known metrics that are present.
generate_markdown_report(rs, title) ==
    [title |-> title,
     sections |-> [i \in 1..Len(rs) |->
                      [target_id |-> rs[i].target_id,
                       status |-> IF "status" \in DOMAIN rs[i].metrics
                                     /\ rs[i].metrics.status = "failed"
                                  THEN "FAIL" ELSE "OK",
                       fields |-> {"mean_ns", "p99_ns", "throughput"}
                                     \cap DOMAIN rs[i].metrics]]]

\* Where a save fails, and how: a directory that cannot be created, or one
\* of the three writes.
SaveFaults ==
    {[at |-> "none", how |-> "ok"]}
      \cup {[at |-> d, how |-> "refused"] : d \in {"output_dir", "raw_dir"}}
      \cup {[at |-> "summary", how |-> "refused"]}
      \cup {[at |-> w, how |-> h] : w \in {"history", "latest"},
                                     h \in {"refused", "cut"}}

FaultAt(fault, step) == IF fault.at = step THEN fault.how ELSE "ok"

\* The raw directory with `file` under `name` (nothing when the write was
\* refused before the file existed).
WithFile(raw, name, file) ==
    IF file = Absent THEN raw
    ELSE [n \in (DOMAIN raw) \cup {name} |-> IF n = name THEN file ELSE raw[n]]

\* ensure_output_dirs(base_path)
ensure_output_dirs(f, fault) ==
    IF fault.at = "output_dir"
    THEN [fs |-> f, ret |-> Err("Failed to create output directory")]
    ELSE IF fault.at = "raw_dir"
    THEN [fs |-> [f EXCEPT !.output_dir = TRUE],
          ret |-> Err("Failed to create raw output directory")]
    ELSE [fs |-> [f EXCEPT !.output_dir = TRUE, !.raw_dir = TRUE],
          ret |-> Ok("output_dir")]

\* save_results writing the history file only.
save_results_NoLatest(f, rs, secs, fault) ==
    LET dirs == ensure_output_dirs(f, fault)
        history == write_results_json(RawFile(dirs.fs, json_path(secs)), rs,
                                      FaultAt(fault, "history"))
    IN IF dirs.ret.tag = "Err" THEN dirs
       ELSE [fs |-> [dirs.fs EXCEPT !.raw = WithFile(@, json_path(secs), history.file)],
             ret |-> history.ret]

\* save_results(results, base_path) at clock reading `secs`: the directories,
\* summary.md, results-<timestamp>.json, results-latest.json; the first
\* failure is returned and what was written before it stays.
save_results(f, rs, secs, fault) ==
    LET dirs == ensure_output_dirs(f, fault)
        summary_how == FaultAt(fault, "summary")
        f1 == [dirs.fs EXCEPT !.summary =
                  fs_write(@, generate_markdown_report(rs,
                                  "Connector Hub Benchmark Results"),
                           summary_how)]
        history == write_results_json(RawFile(f1, json_path(secs)), rs,
                                      FaultAt(fault, "history"))
        f2 == [f1 EXCEPT !.raw = WithFile(@, json_path(secs), history.file)]
        latest == write_results_json(RawFile(f2, latest_path), rs,
                                     FaultAt(fault, "latest"))
        f3 == [f2 EXCEPT !.raw = WithFile(@, latest_path, latest.file)]
    IN IF dirs.ret.tag = "Err" THEN dirs
       ELSE IF summary_how # "ok"
       THEN [fs |-> f1, ret |-> Err("Failed to write summary")]
       ELSE IF history.ret.tag = "Err" THEN [fs |-> f2, ret |-> history.ret]
       ELSE IF latest.ret.tag = "Err" THEN [fs |-> f3, ret |-> latest.ret]
       ELSE [fs |-> f3, ret |-> Ok("unit")]

\* list_result_files listing every file of the raw directory.
list_result_files_Unfiltered(f, readable) ==
    IF ~f.raw_dir THEN Ok(<< >>)
    ELSE IF ~readable THEN Err("read_dir failed")
    ELSE Ok(SortPaths(DOMAIN f.raw))

\* list_result_files(base_path): the sorted paths of the raw directory whose
\* extension is json; nothing when the directory does not exist.
list_result_files(f, readable) ==
    IF ~f.raw_dir THEN Ok(<< >>)
    ELSE IF ~readable THEN Err("read_dir failed")
    ELSE Ok(SortPaths({n \in DOMAIN f.raw : extension(n) = Tail(JsonSuffix)}))

\* Targets a caller can build: every adapter with every count, and another
\* implementation of the trait.
BuiltTargets ==
    {t \in {with_iterations(id, n, w) : id \in AdapterIds, n \in 0..MaxIter,
                                        w \in 0..MaxWarmup} :
        t.iterations * Len(Phases(t.id)) <= MaxSamples}
      \cup {new(CustomId)}

\* all_targets() with one more implementation registered at position p
\* ("Add new benchmark implementations here").
RegisteredWith(t, p) ==
    SubSeq(all_targets, 1, p) \o << t >>
      \o SubSeq(all_targets, p + 1, Len(all_targets))

InitRun(registry, w) ==
    /\ targets = registry
    /\ world = w
    /\ idx = 1
    /\ results = << >>
    /\ now = 0
    /\ rpc = "loop"
    /\ tpc = "idle"
    /\ bridge = NoBridge
    /\ ret = None
    /\ sim = NoSim
    /\ trace = << >>
    /\ attempts = 0
    /\ cli = NoCli
    /\ fs = EmptyFs
    /\ clock = 0
    /\ io = NoIo
    /\ tel = NoTel
    /\ cfg = NoCfg

\* One built target, run by the runner in the full environment.
Init == \E t \in BuiltTargets : InitRun(<< t >>, FullWorld)

\* The registered suite, possibly with one more implementation registered.
InitSuite ==
    \/ InitRun(all_targets, SuiteWorld)
    \/ \E p \in 0..Len(all_targets) :
          InitRun(RegisteredWith(new(CustomId), p), SuiteWorld)

\* ------------------------------------------------------------------------
\* run_all_benchmarks
\* ------------------------------------------------------------------------
\* BenchmarkResult::new(target_id, metrics)
BenchmarkResult(target_id, metrics) ==
    [target_id |-> target_id, metrics |-> metrics, timestamp |-> now]

\* ErrorMetrics with another status word.
ErrorMetrics_StatusError(e) == [error |-> e, status |-> "error"]

\* serde_json::json!({"error": e.to_string(), "status": "failed"})
ErrorMetrics(e) == [error |-> e, status |-> "failed"]

\* is_success taking the presence of an error entry for the failure.
is_success_ErrorKey(r) == ~("error" \in DOMAIN r.metrics)

\* BenchmarkResult::is_success
is_success(r) ==
    ~("status" \in DOMAIN r.metrics /\ r.metrics.status = "failed")

\* <[&str]>::contains(&id)
contains(target_ids, id) == \E i \in 1..Len(target_ids) : target_ids[i] = id

\* run_benchmarks_by_id runs the targets whose id is in the list.
Selected == ~cli.by_id \/ contains(cli.target_ids, Cur.id)

\* RunnerStart that does not await the run of the target before: the next
\* target is started as soon as the loop or the target before is done.
RunnerStart_NoAwait ==
    \/ /\ rpc = "loop"
       /\ idx <= Len(targets)
       /\ rpc' = "awaiting"
       /\ tpc' = "Start"
       /\ trace' = << "Start" >>
       /\ UNCHANGED << store, targets, world, idx, results, now, bridge, ret, sim, attempts >>
    \/ /\ rpc = "awaiting"
       /\ tpc = "Done"
       /\ idx < Len(targets)
       /\ idx' = idx + 1
       /\ tpc' = "Start"
       /\ trace' = << "Start" >>
       /\ UNCHANGED << store, targets, world, results, now, rpc, bridge, ret, sim, attempts >>

\* RunnerStart running the targets the list does not name as well.
RunnerStart_Unfiltered ==
    /\ rpc = "loop"
    /\ idx <= Len(targets)
    /\ rpc' = "awaiting"
    /\ tpc' = "Start"
    /\ trace' = << "Start" >>
    /\ UNCHANGED << store, targets, world, idx, results, now, bridge, ret, sim, attempts >>

\* `for target in targets { ... target.run().await`
RunnerStart ==
    /\ rpc = "loop"
    /\ idx <= Len(targets)
    /\ Selected
    /\ rpc' = "awaiting"
    /\ tpc' = "Start"
    /\ trace' = << "Start" >>
    /\ UNCHANGED << store, targets, world, idx, results, now, bridge, ret, sim, attempts >>

\* run_benchmarks_by_id: `if target_ids.contains(..)` is false, next target.
RunnerSkip ==
    /\ rpc = "loop"
    /\ idx <= Len(targets)
    /\ ~Selected
    /\ idx' = idx + 1
    /\ UNCHANGED << store, targets, world, results, now, rpc, tpc, bridge, ret, sim, trace, attempts >>

\* RunnerRecord with the Err arm leaving the target out of the results.
RunnerRecord_SkipsFailed ==
    /\ rpc = "awaiting"
    /\ tpc = "Done"
    /\ results' =
          IF ret.tag = "Ok"
          THEN Append(results, BenchmarkResult(Cur.id, ret.val))
          ELSE results
    /\ idx' = idx + 1
    /\ now' = now + 1
    /\ rpc' = "loop"
    /\ tpc' = "idle"
    /\ bridge' = NoBridge
    /\ sim' = NoSim
    /\ ret' = None
    /\ trace' = << >>
    /\ attempts' = 0
    /\ UNCHANGED << store, targets, world >>

\* The match on the awaited Result: push the result, next iteration.
RunnerRecord ==
    /\ rpc = "awaiting"
    /\ tpc = "Done"
    /\ results' =
          Append(results,
                 IF ret.tag = "Ok"
                 THEN BenchmarkResult(Cur.id, ret.val)
                 ELSE BenchmarkResult(Cur.id, ErrorMetrics(ret.err)))
    /\ idx' = idx + 1
    /\ now' = now + 1
    /\ rpc' = "loop"
    /\ tpc' = "idle"
    /\ bridge' = NoBridge
    /\ sim' = NoSim
    /\ ret' = None
    /\ trace' = << >>
    /\ attempts' = 0
    /\ UNCHANGED << store, targets, world >>

\* The loop is over: `results` is returned.
RunnerReturn ==
    /\ rpc = "loop"
    /\ idx > Len(targets)
    /\ rpc' = "returned"
    /\ UNCHANGED << store, targets, world, idx, results, now, tpc, bridge, ret, sim, trace, attempts >>

\* A panic inside the awaited run unwinds through run_all_benchmarks and
\* main: the process ends.
Panic ==
    /\ tpc' = "Panicked"
    /\ rpc' = "panicked"

\* ------------------------------------------------------------------------
\* BenchTarget::run of the five adapters: the bridge
\* ------------------------------------------------------------------------
IsAdapter == Cur.id \in AdapterIds

\* Only provider-resolution checks node_modules and runs `npm install`.
ChecksNodeModules(id) == id = ProviderId

\* run_ts_benchmark returned Err(e): the `?` of a failed step.
BridgeReturnsErr(e) ==
    /\ ret' = Err(e)
    /\ tpc' = "BridgeFailed"
    /\ trace' = Append(trace, "BridgeFailed")

\* run() calls run_ts_benchmark
TryBridge ==
    /\ tpc = "Start"
    /\ IsAdapter
    /\ tpc' = "CurrentDir"
    /\ trace' = Append(trace, "TryBridge")
    /\ UNCHANGED << store, targets, world, idx, results, now, rpc, bridge, ret, sim, attempts >>

\* std::env::current_dir()?
CurrentDir ==
    /\ tpc = "CurrentDir"
    /\ \/ /\ tpc' = IF ChecksNodeModules(Cur.id) THEN "CheckModules" ELSE "Spawn"
          /\ UNCHANGED << ret, trace >>
       \/ BridgeReturnsErr("current directory is not available")
    /\ UNCHANGED << store, targets, world, idx, results, now, rpc, bridge, sim, attempts >>

\* if !node_modules.exists()
CheckNodeModules ==
    /\ tpc = "CheckModules"
    /\ \E present \in BOOLEAN :
          /\ bridge' = [bridge EXCEPT !.node_modules =
                           IF present THEN "present" ELSE "missing"]
          /\ tpc' = IF present THEN "Spawn" ELSE "Install"
    /\ UNCHANGED << store, targets, world, idx, results, now, rpc, ret, sim, trace, attempts >>

\* NpmInstall returning the error of an install that exited with a failure.
NpmInstall_ExitPropagates ==
    /\ tpc = "Install"
    /\ \/ /\ bridge' = [bridge EXCEPT !.install = "not_started"]
          /\ BridgeReturnsErr("Failed to run npm install")
       \/ /\ bridge' = [bridge EXCEPT !.install = "failed"]
          /\ BridgeReturnsErr("npm install failed")
       \/ /\ bridge' = [bridge EXCEPT !.install = "succeeded"]
          /\ tpc' = "Spawn"
          /\ UNCHANGED << ret, trace >>
    /\ UNCHANGED << store, targets, world, idx, results, now, rpc, sim, attempts >>

\* Command::new("npm").arg("install") ... .output().await.context(..)?
\* A command that cannot be started is an Err the `?` returns; an exit status
\* that is not success is only logged.
NpmInstall ==
    /\ tpc = "Install"
    /\ \/ /\ bridge' = [bridge EXCEPT !.install = "not_started"]
          /\ BridgeReturnsErr("Failed to run npm install")
       \/ /\ \E ok \in BOOLEAN :
                bridge' = [bridge EXCEPT !.install =
                              IF ok THEN "succeeded" ELSE "failed"]
          /\ tpc' = "Spawn"
          /\ UNCHANGED << ret, trace >>
    /\ UNCHANGED << store, targets, world, idx, results, now, rpc, sim, attempts >>

\* Command::new("npm").args(["run", "bench:..", "--", "--json"]) ... .output()
\* The command cannot be started (Err, returned by `?`) or the subprocess runs.
SpawnBenchmark ==
    /\ tpc = "Spawn"
    /\ \/ /\ bridge' = [bridge EXCEPT !.spawn = "not_started"]
          /\ BridgeReturnsErr("Failed to execute TypeScript benchmark")
       \/ /\ bridge' = [bridge EXCEPT !.spawn = "running"]
          /\ tpc' = "Waiting"
          /\ UNCHANGED << ret, trace >>
    /\ attempts' = attempts + 1
    /\ UNCHANGED << store, targets, world, idx, results, now, rpc, sim >>

\* The subprocess exits: `.await` yields its output, and the rest of
\* run_ts_benchmark runs without another suspension point.
BenchmarkExits ==
    /\ tpc = "Waiting"
    /\ \E success \in BOOLEAN, stdout \in Outputs, elapsed \in Readings :
          LET outcome == BridgeOutcome(Cur.id, success, stdout, elapsed)
          IN /\ bridge' = [bridge EXCEPT !.spawn = "exited",
                                         !.success = success,
                                         !.stdout = stdout,
                                         !.elapsed = elapsed]
             /\ IF outcome.tag = "panic"
                THEN /\ Panic
                     /\ UNCHANGED << ret, trace >>
                ELSE /\ ret' = outcome
                     /\ tpc' = "BridgeSucceeded"
                     /\ trace' = Append(trace, "BridgeSucceeded")
                     /\ UNCHANGED rpc
    /\ UNCHANGED << store, targets, world, idx, results, now, sim, attempts >>

\* run(): Ok(metrics) => Ok(metrics)
BridgeOk ==
    /\ tpc = "BridgeSucceeded"
    /\ tpc' = "Done"
    /\ trace' = Append(trace, "Done")
    /\ UNCHANGED << store, targets, world, idx, results, now, rpc, bridge, ret, sim, attempts >>

\* ------------------------------------------------------------------------
\* BenchTarget::run of the five adapters: the simulated workload
\* ------------------------------------------------------------------------
NumPhases == Len(Phases(Cur.id))

\* RunSimulated taken whatever run_ts_benchmark returned.
RunSimulated_Always ==
    /\ tpc \in {"BridgeFailed", "BridgeSucceeded"}
    /\ tpc' = "Warmup"
    /\ trace' = Append(trace, "RunSimulated")
    /\ sim' = [times |-> [p \in PhaseSet(Cur.id) |-> << >>],
               raw |-> [p \in PhaseSet(Cur.id) |-> << >>],
               cache |-> EmptyMap, phase |-> 0, i |-> 0,
               last_get |-> "none", runs |-> sim.runs + 1]
    /\ bridge' = NoBridge
    /\ ret' = None
    /\ UNCHANGED << store, targets, world, idx, results, now, rpc, attempts >>

\* run(): Err(e) => { info!(..e..); self.run_simulated().await }; the locals
\* of run_ts_benchmark are gone, the error is consumed by the log line, and
\* the sample vectors and the cache are created empty.
RunSimulated ==
    /\ tpc = "BridgeFailed"
    /\ tpc' = "Warmup"
    /\ trace' = Append(trace, "RunSimulated")
    /\ sim' = [times |-> [p \in PhaseSet(Cur.id) |-> << >>],
               raw |-> [p \in PhaseSet(Cur.id) |-> << >>],
               cache |-> EmptyMap, phase |-> 0, i |-> 0,
               last_get |-> "none", runs |-> sim.runs + 1]
    /\ bridge' = NoBridge
    /\ ret' = None
    /\ UNCHANGED << store, targets, world, idx, results, now, rpc, attempts >>

\* WarmupStep keeping the timing of the warm-up iteration as a sample of
\* the first phase.
WarmupStep_Timed ==
    /\ tpc = "Warmup"
    /\ sim.i < Cur.warmup_iterations
    /\ \E d \in Readings :
          sim' = [sim EXCEPT
                    !.i = @ + 1,
                    !.times[Phases(Cur.id)[1]] = Append(@, d),
                    !.raw[Phases(Cur.id)[1]] = Append(@, d)]
    /\ UNCHANGED << store, targets, world, idx, results, now, rpc, tpc, bridge, ret, trace, attempts >>

\* One iteration of the warm-up loop: no timing is kept.
WarmupStep ==
    /\ tpc = "Warmup"
    /\ sim.i < Cur.warmup_iterations
    /\ sim' = [sim EXCEPT
                 !.i = @ + 1,
                 !.cache = IF Cur.id = CacheId
                           THEN MapInsert(@, generate_cache_key(sim.i),
                                          [data |-> sim.i])
                           ELSE @]
    /\ UNCHANGED << store, targets, world, idx, results, now, rpc, tpc, bridge, ret, trace, attempts >>

\* The warm-up loop is over (cache.clear() in cache-operations).
WarmupDone ==
    /\ tpc = "Warmup"
    /\ sim.i >= Cur.warmup_iterations
    /\ sim' = [sim EXCEPT !.i = 0, !.phase = 1, !.cache = EmptyMap]
    /\ tpc' = "Sampling"
    /\ UNCHANGED << store, targets, world, idx, results, now, rpc, bridge, ret, trace, attempts >>

\* One iteration of a timed loop: the operation runs between Instant::now()
\* and start.elapsed(), and the reading is pushed on the phase's vector.
SampleStep ==
    /\ tpc = "Sampling"
    /\ sim.phase <= NumPhases
    /\ sim.i < Cur.iterations
    /\ \E d \in Readings :
          LET phase == Phases(Cur.id)[sim.phase]
              key == IF phase = "get_miss_times" THEN nonexistent_key(sim.i)
                     ELSE generate_cache_key(sim.i)
          IN sim' = [sim EXCEPT
                       !.i = @ + 1,
                       !.times[phase] = Append(@, d),
                       !.raw[phase] = Append(@, d),
                       !.cache = IF phase = "set_times"
                                 THEN MapInsert(@, key,
                                        [request |-> sim.i, response |-> "cached"])
                                 ELSE @,
                       !.last_get =
                           IF phase \in {"get_hit_times", "get_miss_times"}
                           THEN IF MapGet(sim.cache, key).some
                                THEN "some" ELSE "absent"
                           ELSE @]
    /\ UNCHANGED << store, targets, world, idx, results, now, rpc, tpc, bridge, ret, trace, attempts >>

\* A timed loop is over: the next one starts.
PhaseDone ==
    /\ tpc = "Sampling"
    /\ sim.phase <= NumPhases
    /\ sim.i >= Cur.iterations
    /\ sim' = [sim EXCEPT !.i = 0, !.phase = @ + 1]
    /\ UNCHANGED << store, targets, world, idx, results, now, rpc, tpc, bridge, ret, trace, attempts >>

\* The vectors are sorted and the statistics computed; run_simulated and run
\* return Ok(metrics), unless a statement panics.  The u64 subtraction of the
\* middleware overhead panics or wraps, as the build decides.
Summarize ==
    /\ tpc = "Sampling"
    /\ sim.phase > NumPhases
    /\ \/ /\ StatisticsPanic(Cur, sim.times)
          /\ Panic
          /\ UNCHANGED << ret, trace, sim >>
       \/ /\ ~StatisticsPanic(Cur, sim.times)
          /\ Cur.id = MiddlewareId
          /\ SubUnderflows(Mean(sim.times["pipeline_times"]),
                           Mean(sim.times["single_times"]))
          /\ Panic
          /\ UNCHANGED << ret, trace, sim >>
       \/ /\ ~StatisticsPanic(Cur, sim.times)
          /\ ret' = Ok(SimulatedMetrics(Cur, sim.times))
          /\ sim' = [sim EXCEPT !.times =
                        [p \in PhaseSet(Cur.id) |-> Sort(sim.times[p])]]
          /\ tpc' = "Done"
          /\ trace' = Append(trace, "Done")
          /\ UNCHANGED rpc
    /\ UNCHANGED << store, targets, world, idx, results, now, bridge, attempts >>

\* ------------------------------------------------------------------------
\* BenchTarget::run of another implementation of the trait
\* ------------------------------------------------------------------------
\* The trait promises a Result<Value>: metrics, or an error when the
\* benchmark fails to execute.
CustomMetrics == [mean_ns |-> 1000, throughput |-> Throughput(10000000, 1)]
CustomRun ==
    /\ tpc = "Start"
    /\ ~IsAdapter
    /\ ret' \in {Ok(CustomMetrics), Err("benchmark failed")}
    /\ tpc' = "Done"
    /\ trace' = Append(trace, "Done")
    /\ UNCHANGED << store, targets, world, idx, results, now, rpc, bridge, sim, attempts >>

Next ==
    \/ RunnerStart
    \/ TryBridge
    \/ CurrentDir
    \/ CheckNodeModules
    \/ NpmInstall
    \/ SpawnBenchmark
    \/ BenchmarkExits
    \/ BridgeOk
    \/ RunSimulated
    \/ WarmupStep
    \/ WarmupDone
    \/ SampleStep
    \/ PhaseDone
    \/ Summarize
    \/ CustomRun
    \/ RunnerRecord
    \/ RunnerReturn

Spec == Init /\ [][Next]_vars

\* One built target whose run() is called twice, one call after the other.
InitAgain == \E t \in BuiltTargets : InitRun(<< t, t >>, SuiteWorld)
SpecAgain == InitAgain /\ [][Next]_vars

SpecSuite == InitSuite /\ [][Next]_vars

\* ------------------------------------------------------------------------
\* The functions of benchmarks/io.rs and BenchmarkResult::is_success, called
\* on their own
\* ------------------------------------------------------------------------
\* Results to store: the one of test_write_and_read_json, a failed one, a
\* simulated one; their timestamps need 0, 6, 3 and 9 fraction digits.
SampleResults ==
    { [target_id |-> "test", metrics |-> [value |-> 42], timestamp |-> 0],
      [target_id |-> ProviderId, metrics |-> ErrorMetrics("benchmark failed"),
       timestamp |-> 1500000],
      [target_id |-> CacheId,
       metrics |-> [mean_ns |-> 1000, throughput |-> Throughput(1000, 1),
                    status |-> "simulated"],
       timestamp |-> Billion + 2000000],
      [target_id |-> StreamId,
       metrics |-> [mean_ns |-> 63, throughput |-> Throughput(63, 1),
                    status |-> "simulated"],
       timestamp |-> 1] }

ResultSeqs(n) == UNION {[1..k -> SampleResults] : k \in 0..n}

\* The result sequences handed to save_results: none, one, two results.
SavedSeqs ==
    {rs \in ResultSeqs(2) :
        \A i \in 1..Len(rs) :
           rs[i].target_id = (IF Len(rs) = 1 THEN "test"
                              ELSE IF i = 1 THEN ProviderId ELSE CacheId)}

\* Files that were not written by write_results_json: a JSON object, text
\* that is not JSON, an array whose element lacks the timestamp, an array
\* whose timestamp is not a date.
ForeignFiles ==
    { [json |-> "object"],
      Truncated,
      [json |-> "array",
       items |-> << [target_id |-> "test", metrics |-> [value |-> 42]] >>],
      [json |-> "array",
       items |-> << [target_id |-> "test", metrics |-> [value |-> 42],
                     timestamp |-> [text |-> "yesterday"]] >>] }

\* Metrics maps is_success is asked about: without a status, with each
\* status the targets write, with "failed", and with "failed" below the top
\* level only.
SampleMetrics ==
    { ParsedEmpty, ParsedMean,
      [status |-> "simulated", mean_ns |-> 1],
      [status |-> "completed"],
      [status |-> "ts_benchmark_unavailable"],
      [status |-> "failed"],
      [status |-> "Failed"],
      ErrorMetrics("benchmark failed"),
      [status |-> "simulated", get_hit |-> [status |-> "failed"]],
      [error |-> "failed"] }

\* The readings of the wall clock, in seconds: around the carry of the
\* seconds' digits and of the minute.
FirstReading == 9
ClockReadings == {FirstReading, FirstReading + 1, MaxClock}

\* The raw directory as somebody else left it: missing, or holding files
\* that no save wrote.
InitialFs ==
    { EmptyFs,
      [EmptyFs EXCEPT !.output_dir = TRUE, !.raw_dir = TRUE,
                      !.raw = WithFile(WithFile(<< >>, notes_path, Truncated),
                                       other_json_path, [json |-> "object"])] }

InitIo ==
    /\ targets = all_targets
    /\ world = SuiteWorld
    /\ idx = 1
    /\ results = << >>
    /\ now = 0
    /\ rpc = "uncalled"
    /\ tpc = "idle"
    /\ bridge = NoBridge
    /\ ret = None
    /\ sim = NoSim
    /\ trace = << >>
    /\ attempts = 0
    /\ cli = NoCli
    /\ fs \in InitialFs
    /\ clock = FirstReading
    /\ io = NoIo
    /\ tel = NoTel
    /\ cfg = NoCfg

runner == << targets, world, idx, results, now, rpc, tpc, bridge, ret, sim,
             trace, attempts >>

\* The calls are made in two settings: saves and listings of the output
\* directory as time passes, and writes and reads of one file elsewhere.
NothingSaved == io.saves = 0 /\ clock = FirstReading
NothingWritten == fs.scratch = Absent

\* Time passes between two calls.
IoTick ==
    /\ NothingWritten
    /\ \E c \in ClockReadings : c > clock /\ clock' = c
    /\ io' = [io EXCEPT !.call = [op |-> "none"]]
    /\ UNCHANGED << runner, tel, cfg, cli, fs >>

\* save_results(&results, base_path)
IoSave ==
    /\ NothingWritten
    /\ io.saves < MaxSaves
    /\ \E rs \in SavedSeqs, fault \in SaveFaults :
          LET saved == save_results(fs, rs, clock, fault)
          IN /\ fs' = saved.fs
             /\ io' = [saves |-> io.saves + 1,
                       oks |-> IF saved.ret.tag = "Ok" THEN io.oks + 1 ELSE io.oks,
                       written |->
                           IF \/ fault.at \in {"none", "latest"}
                              \/ fault = [at |-> "history", how |-> "cut"]
                           THEN Append(io.written, clock) ELSE io.written,
                       last |-> [op |-> "save", results |-> rs, secs |-> clock,
                                 ret |-> saved.ret],
                       call |-> [op |-> "save", results |-> rs, secs |-> clock,
                                 ret |-> saved.ret]]
    /\ UNCHANGED << runner, tel, cfg, cli, clock >>

\* write_results_json(&results, path) on a path outside the output directory
IoWrite ==
    /\ NothingSaved
    /\ \E rs \in ResultSeqs(MaxResults), outcome \in WriteOutcomes :
          LET written == write_results_json(fs.scratch, rs, outcome)
          IN /\ fs' = [fs EXCEPT !.scratch = written.file]
             /\ io' = [io EXCEPT !.call = [op |-> "write", results |-> rs,
                                           ret |-> written.ret]]
    /\ UNCHANGED << runner, tel, cfg, cli, clock >>

\* Somebody else writes the file that is read next.
IoForeignWrite ==
    /\ NothingSaved
    /\ \E file \in ForeignFiles : fs' = [fs EXCEPT !.scratch = file]
    /\ io' = [io EXCEPT !.call = [op |-> "none"]]
    /\ UNCHANGED << runner, tel, cfg, cli, clock >>

\* read_results_json(path) on that path, or on results-latest.json, by a
\* program built with or without serde_json's float_roundtrip
IoRead ==
    /\ \E path \in {"scratch", "latest"}, float_roundtrip \in BOOLEAN :
          io' = [io EXCEPT !.call =
                    [op |-> "read", path |-> path,
                     float_roundtrip |-> float_roundtrip,
                     ret |-> read_results_json(
                                IF path = "scratch" THEN fs.scratch
                                ELSE RawFile(fs, latest_path),
                                float_roundtrip)]]
    /\ UNCHANGED << runner, tel, cfg, cli, fs, clock >>

\* list_result_files(base_path)
IoList ==
    /\ \E readable \in BOOLEAN :
          io' = [io EXCEPT !.call = [op |-> "list",
                                     ret |-> list_result_files(fs, readable)]]
    /\ UNCHANGED << runner, tel, cfg, cli, fs, clock >>

\* BenchmarkResult::new(id, metrics).is_success()
IoIsSuccess ==
    /\ NothingSaved
    /\ NothingWritten
    /\ \E m \in SampleMetrics :
          io' = [io EXCEPT !.call =
                    [op |-> "is_success", metrics |-> m,
                     ret |-> is_success(BenchmarkResult("test", m))]]
    /\ UNCHANGED << runner, tel, cfg, cli, fs, clock >>

NextIo ==
    \/ IoTick
    \/ IoSave
    \/ IoWrite
    \/ IoForeignWrite
    \/ IoRead
    \/ IoList
    \/ IoIsSuccess

SpecIo == InitIo /\ [][NextIo]_vars

\* ------------------------------------------------------------------------
\* parse_sse_chunk and aggregate_chunks (adapters/stream_parsing.rs)
\* ------------------------------------------------------------------------
\* A chunk is a sequence of tokens: [text |-> t] for the texts "data: ",
\* "data:", "[DONE]", " ", "\n" and "x" (any other text), [json |-> v] for
\* the text of the JSON value v.  A Value is an object, an array, a string
\* (a sequence of pieces of text) or a number.
MaxChunks == 3
Some(v) == [tag |-> "some", val |-> v]
Text(t) == [text |-> t]
Json(v) == [json |-> v]
Object(fields) == [kind |-> "object", fields |-> fields]
Array(items) == [kind |-> "array", items |-> items]
String(pieces) == [kind |-> "string", pieces |-> pieces]
Number(n) == [kind |-> "number", n |-> n]

\* {"choices":[{"delta":{"content": c}}]}
DeltaOf(c) == Object([delta |-> Object([content |-> c])])
Completion(c) == Object([choices |-> Array(<< DeltaOf(c) >>)])

Whitespace == {Text(" "), Text("\n")}

RECURSIVE trim_chunk(_)
\* str::trim() of the text after the prefix
trim_chunk(c) ==
    IF c = << >> THEN c
    ELSE IF Head(c) \in Whitespace THEN trim_chunk(Tail(c))
    ELSE IF c[Len(c)] \in Whitespace THEN trim_chunk(SubSeq(c, 1, Len(c) - 1))
    ELSE c

\* serde_json::from_str::<Value>: the text of one JSON value and nothing else
from_str_value(c) ==
    IF Len(c) = 1 /\ DOMAIN c[1] = {"json"} THEN Ok(c[1].json)
    ELSE Err("expected value")

\* Value::get(key) and Value::get(index) behind Option::and_then
get_key(o, key) ==
    IF o.tag = "some" /\ o.val.kind = "object" /\ key \in DOMAIN o.val.fields
    THEN Some(o.val.fields[key]) ELSE None
get_index(o, i) ==
    IF o.tag = "some" /\ o.val.kind = "array" /\ i < Len(o.val.items)
    THEN Some(o.val.items[i + 1]) ELSE None
\* Value::as_str
as_str(o) ==
    IF o.tag = "some" /\ o.val.kind = "string" THEN Some(o.val.pieces) ELSE None

\* parse_sse_chunk(chunk) -> Option<String>
parse_sse_chunk(chunk) ==
    IF Len(chunk) >= 2 /\ chunk[1] = Text("data: ") /\ chunk[2] = Text("[DONE]")
    THEN None
    ELSE IF chunk # << >> /\ chunk[1] = Text("data: ")
    THEN LET value == from_str_value(trim_chunk(Tail(chunk)))
         IN IF value.tag = "Ok"
            THEN as_str(get_key(get_key(get_index(
                     get_key(Some(value.val), "choices"), 0), "delta"), "content"))
            ELSE None
    ELSE None

RECURSIVE aggregate_chunks_Reversed(_)
\* aggregate_chunks putting each text before the texts collected so far.
aggregate_chunks_Reversed(chunks) ==
    IF chunks = << >> THEN << >>
    ELSE LET content == parse_sse_chunk(Head(chunks))
             rest == aggregate_chunks_Reversed(Tail(chunks))
         IN IF content.tag = "some" THEN rest \o content.val ELSE rest

RECURSIVE aggregate_chunks(_)
\* aggregate_chunks(chunks): push_str of every content, in order
aggregate_chunks(chunks) ==
    IF chunks = << >> THEN << >>
    ELSE LET content == parse_sse_chunk(Head(chunks))
             rest == aggregate_chunks(Tail(chunks))
         IN IF content.tag = "some" THEN content.val \o rest ELSE rest

\* The two blank lines that end a chunk.
EndOfChunk == << Text("\n"), Text("\n") >>
DataChunk(v) == << Text("data: "), Json(v) >> \o EndOfChunk

\* The chunks of run_simulated.
SimulatedChunks ==
    << DataChunk(Completion(String(<< "Hello" >>))),
       DataChunk(Completion(String(<< " world" >>))),
       DataChunk(Completion(String(<< "!" >>))),
       << Text("data: "), Text("[DONE]") >> \o EndOfChunk >>

\* Chunks with the class each belongs to and the text it carries: the
\* sentinel, lines without the "data: " marker, lines whose JSON lacks the
\* nested text, and lines with content.
SampleChunks ==
    { [chunk |-> SimulatedChunks[1], class |-> "content", text |-> << "Hello" >>],
      [chunk |-> SimulatedChunks[2], class |-> "content", text |-> << " world" >>],
      [chunk |-> SimulatedChunks[4], class |-> "sentinel", text |-> << >>],
      [chunk |-> << Text("data: "), Text("[DONE]"), Text("x") >>,
       class |-> "sentinel", text |-> << >>],
      [chunk |-> << Text("data: "), Text(" "),
                    Json(Completion(String(<< "!" >>))), Text(" ") >>,
       class |-> "content", text |-> << "!" >>],
      [chunk |-> DataChunk(Completion(String(<< >>))),
       class |-> "content", text |-> << >>],
      [chunk |-> DataChunk(Object([choices |->
                    Array(<< DeltaOf(String(<< "a" >>)),
                             DeltaOf(String(<< "b" >>)) >>)])),
       class |-> "content", text |-> << "a" >>],
      [chunk |-> << Json(Completion(String(<< "Hello" >>))) >> \o EndOfChunk,
       class |-> "no_marker", text |-> << >>],
      [chunk |-> << Text("data:"), Json(Completion(String(<< "Hello" >>))) >>,
       class |-> "no_marker", text |-> << >>],
      [chunk |-> << >>, class |-> "no_marker", text |-> << >>],
      [chunk |-> DataChunk(Object([choices |-> Array(<< >>)])),
       class |-> "no_text", text |-> << >>],
      [chunk |-> DataChunk(Object([choices |->
                    Array(<< Object([delta |-> Object([role |-> String(<< "a" >>)])])
                          >>)])),
       class |-> "no_text", text |-> << >>],
      [chunk |-> DataChunk(Completion(Number(5))),
       class |-> "no_text", text |-> << >>],
      [chunk |-> DataChunk(String(<< "Hello" >>)),
       class |-> "no_text", text |-> << >>],
      [chunk |-> << Text("data: "), Text("x") >> \o EndOfChunk,
       class |-> "no_text", text |-> << >>] }

\* The functions are called once each on a fresh benchmark value.
\* parse_sse_chunk(chunk)
SseParse ==
    /\ io.call.op = "none"
    /\ \E c \in SampleChunks :
          io' = [io EXCEPT !.call = [op |-> "parse_sse_chunk", chunk |-> c,
                                     ret |-> parse_sse_chunk(c.chunk)]]
    /\ UNCHANGED << runner, tel, cfg, cli, fs, clock >>

\* aggregate_chunks(&chunks)
SseAggregate ==
    /\ io.call.op = "none"
    /\ \E cs \in UNION {[1..n -> SampleChunks] : n \in 0..MaxChunks} :
          io' = [io EXCEPT !.call =
                    [op |-> "aggregate_chunks", chunks |-> cs,
                     ret |-> aggregate_chunks([i \in 1..Len(cs) |-> cs[i].chunk])]]
    /\ UNCHANGED << runner, tel, cfg, cli, fs, clock >>

\* aggregate_chunks(&chunks) on the chunks of run_simulated
SseAggregateSimulated ==
    /\ io.call.op = "none"
    /\ io' = [io EXCEPT !.call =
                 [op |-> "aggregate_simulated",
                  ret |-> aggregate_chunks(SimulatedChunks)]]
    /\ UNCHANGED << runner, tel, cfg, cli, fs, clock >>

NextSse == SseParse \/ SseAggregate \/ SseAggregateSimulated
SpecSse == InitIo /\ [][NextSse]_vars

\* ------------------------------------------------------------------------
\* SpanAdapter (crates/core/src/adapters/telemetry.rs)
\* ------------------------------------------------------------------------
\* Spans started, and record_* calls that change a span, in one behaviour.
MaxSpans == 2
MaxRecords == 1

\* uuid::Uuid::new_v4().to_string(): the n-th identifier drawn.  Version 4
\* identifiers are random; two draws are taken to differ.
Uuid(n) == << "uuid", n >>

\* String::new()
EmptyString == << >>

\* The unit value ().
Unit == [tag |-> "unit"]

\* The span ids a caller passes: every id that can be issued, one that never
\* is, and the empty id a disabled adapter returns.
SpanIds == {Uuid(n) : n \in 1..(MaxSpans + 1)} \cup {EmptyString}

\* The match of start_provider_span from a provider name to a Provider.
ProviderOf(provider_name) ==
    CASE provider_name = "openai" -> [kind |-> "OpenAI"]
      [] provider_name = "anthropic" -> [kind |-> "Anthropic"]
      [] provider_name = "google" -> [kind |-> "Google"]
      [] provider_name = "mistral" -> [kind |-> "Mistral"]
      [] provider_name = "cohere" -> [kind |-> "Cohere"]
      [] OTHER -> [kind |-> "Custom", name |-> provider_name]

\* ConnectorError::Observatory(format!("Span not found: {}", span_id))
SpanNotFound(span_id) ==
    Err([kind |-> "Observatory", message |-> "Span not found", id |-> span_id])

\* set_enabled(enabled)
set_enabled(t, enabled) == [t EXCEPT !.enabled = enabled]

\* start_provider_span keeping the span out of active_spans.
start_provider_span_Untracked(t, provider_name, model, trace_id) ==
    IF ~t.enabled THEN [tel |-> t, ret |-> EmptyString]
    ELSE [tel |-> t, ret |-> Uuid(Cardinality(t.issued) + 1)]

\* start_provider_span(provider_name, model, trace_id): the adapter after the
\* call and the span id returned.
start_provider_span(t, provider_name, model, trace_id) ==
    IF ~t.enabled THEN [tel |-> t, ret |-> EmptyString]
    ELSE LET span_id == Uuid(Cardinality(t.issued) + 1)
             span ==
                 [trace_id |-> IF trace_id = None
                               THEN << "uuid", "trace", Cardinality(t.issued) + 1 >>
                               ELSE trace_id.val,
                  span_id |-> span_id,
                  parent_span_id |-> None,
                  name |-> << "llm.", provider_name, ".completion" >>,
                  provider |-> ProviderOf(provider_name),
                  model |-> model,
                  input |-> [prompt |-> EmptyString],
                  output |-> None,
                  status |-> "Unset",
                  token_usage |-> None,
                  cost |-> None,
                  environment |-> t.environment,
                  tags |-> << << "provider:", provider_name >>,
                              << "model:", model >> >>,
                  events |-> << >>]
         IN [tel |-> [t EXCEPT !.active_spans = MapInsert(@, span_id, span)],
             ret |-> span_id]

\* The frame of the record_* functions: Ok(()) at once when telemetry is
\* disabled, the "Span not found" error when get_mut finds no span, and
\* otherwise the span with the field assigned.
get_mut_span(t, span_id, field, value) ==
    IF ~t.enabled THEN [tel |-> t, ret |-> Ok(Unit)]
    ELSE IF span_id \notin DOMAIN t.active_spans
         THEN [tel |-> t, ret |-> SpanNotFound(span_id)]
         ELSE [tel |-> [t EXCEPT !.active_spans[span_id][field] = value],
               ret |-> Ok(Unit)]

\* record_request(span_id, request)
record_request(t, span_id, request) ==
    get_mut_span(t, span_id, "input", [prompt |-> request])

\* record_response(span_id, response)
record_response(t, span_id, response) ==
    get_mut_span(t, span_id, "output",
                 Some([content |-> response,
                       finish_reason |-> Some("complete")]))

\* record_usage(span_id, prompt_tokens, completion_tokens); the sum of the
\* two u32 counts stays below 2^32 for the counts drawn here.
record_usage(t, span_id, prompt_tokens, completion_tokens) ==
    get_mut_span(t, span_id, "token_usage",
                 Some([prompt_tokens |-> prompt_tokens,
                       completion_tokens |-> completion_tokens,
                       total_tokens |-> prompt_tokens + completion_tokens]))

\* record_cost(span_id, amount_usd), the amount in hundredths of a cent:
\* each half is amount_usd / 2.0.
record_cost(t, span_id, amount_usd) ==
    get_mut_span(t, span_id, "cost",
                 Some([amount_usd |-> amount_usd,
                       currency |-> "USD",
                       prompt_cost |-> Some([half_of |-> amount_usd]),
                       completion_cost |-> Some([half_of |-> amount_usd])]))

\* record_event(span_id, name, attributes): the event is pushed onto the
\* events of the span, when there is one.
record_event(t, span_id, name) ==
    get_mut_span(t, span_id, "events",
                 IF span_id \in DOMAIN t.active_spans
                 THEN Append(t.active_spans[span_id].events, [name |-> name])
                 ELSE << >>)

\* HashMap::remove(key): the map without the key.
MapRemove(map, key) == [k \in (DOMAIN map) \ {key} |-> map[k]]

\* finish_span returning Ok(()) for a span that is not active.
finish_span_Idempotent(t, span_id, success) ==
    IF ~t.enabled \/ span_id \notin DOMAIN t.active_spans
    THEN [tel |-> t, ret |-> Ok(Unit)]
    ELSE [tel |-> [t EXCEPT !.active_spans = MapRemove(@, span_id)],
          ret |-> Ok(Unit)]

\* finish_span(span_id, success): Ok(()) at once when telemetry is disabled;
\* otherwise the span is removed, given its status and emitted (emit_span
\* always returns Ok), or the "Span not found" error is returned.
finish_span(t, span_id, success) ==
    IF ~t.enabled THEN [tel |-> t, ret |-> Ok(Unit)]
    ELSE IF span_id \notin DOMAIN t.active_spans
         THEN [tel |-> t, ret |-> SpanNotFound(span_id)]
         ELSE [tel |-> [t EXCEPT !.active_spans = MapRemove(@, span_id)],
               ret |-> Ok(Unit)]

\* The adapter after a call, with the call and its outcome noted.
TelCalled(op, span_id, out) ==
    /\ tel' = [out.tel EXCEPT !.call = [op |-> op, id |-> span_id,
                                        ret |-> out.ret]]
    /\ UNCHANGED << runner, cfg, cli, fs, clock, io >>

\* The same for a record_* call: those that change a span are counted.
TelRecorded(op, span_id, out) ==
    /\ (out.tel # tel) => tel.records < MaxRecords
    /\ TelCalled(op, span_id,
                 [out EXCEPT !.tel.records =
                     IF out.tel # tel THEN @ + 1 ELSE @])

\* The arguments of start_provider_span: those of the unit tests, and a
\* provider outside the match with a trace id given.
StartArgs ==
    {[provider_name |-> "openai", model |-> "gpt-4", trace_id |-> None],
     [provider_name |-> "acme", model |-> "acme-1",
      trace_id |-> Some(<< "trace-1" >>)]}

TelSetEnabled ==
    \E enabled \in BOOLEAN :
        TelCalled("set_enabled", EmptyString,
                  [tel |-> set_enabled(tel, enabled), ret |-> Ok(Unit)])

TelStart ==
    /\ Cardinality(tel.issued) < MaxSpans
    /\ \E args \in StartArgs :
          LET out == start_provider_span(tel, args.provider_name, args.model,
                                         args.trace_id)
          IN TelCalled("start_provider_span", out.ret,
                       [tel |-> [out.tel EXCEPT !.issued =
                                    IF out.ret = EmptyString THEN @
                                    ELSE @ \cup {out.ret}],
                        ret |-> [tag |-> "String"]])

TelRecordRequest ==
    \E span_id \in SpanIds :
        TelRecorded("record_request", span_id,
                    record_request(tel, span_id, << "{\"prompt\":\"Hello\"}" >>))

TelRecordResponse ==
    \E span_id \in SpanIds :
        TelRecorded("record_response", span_id,
                    record_response(tel, span_id, << "{\"text\":\"Hi\"}" >>))

TelRecordUsage ==
    \E span_id \in SpanIds :
        TelRecorded("record_usage", span_id,
                    record_usage(tel, span_id, 100, 50))

TelRecordCost ==
    \E span_id \in SpanIds :
        TelRecorded("record_cost", span_id, record_cost(tel, span_id, 500))

TelRecordEvent ==
    \E span_id \in SpanIds :
        TelRecorded("record_event", span_id,
                    record_event(tel, span_id, "cache_hit"))

\* A finish_span that returned Ok while telemetry was enabled is noted in
\* `finished`.
TelFinish ==
    \E span_id \in SpanIds, success \in BOOLEAN :
        LET out == finish_span(tel, span_id, success)
        IN TelCalled("finish_span", span_id,
                     [out EXCEPT !.tel.finished =
                         IF tel.enabled /\ out.ret.tag = "Ok"
                         THEN @ \cup {span_id} ELSE @])

NextTel ==
    \/ TelSetEnabled
    \/ TelStart
    \/ TelRecordRequest
    \/ TelRecordResponse
    \/ TelRecordUsage
    \/ TelRecordCost
    \/ TelRecordEvent
    \/ TelFinish

\* Both adapters as constructed, nothing stored.
InitHub == InitIo /\ fs = EmptyFs

SpecTel == InitHub /\ [][NextTel]_vars

\* ------------------------------------------------------------------------
\* ConfigAdapter (crates/core/src/adapters/config.rs)
\* ------------------------------------------------------------------------
\* The provider names a caller asks for: the three with defaults, one the
\* telemetry adapter knows but this one does not, one nobody knows, and the
\* empty name.
ProviderNames ==
    {"openai", "anthropic", "google", "mistral", "unknown-llm", ""}

\* The providers get_default_endpoint and get_default_models have an arm for.
KnownProviders == {"openai", "anthropic", "google"}

\* The environments the adapter is given: that of new() and that of
\* test_environment_change_clears_cache.
Environments == {"production", "development"}

\* get_default_endpoint(provider)
get_default_endpoint(provider) ==
    CASE provider = "openai" -> Some("https://api.openai.com/v1")
      [] provider = "anthropic" -> Some("https://api.anthropic.com/v1")
      [] provider = "google" ->
            Some("https://generativelanguage.googleapis.com/v1")
      [] OTHER -> None

\* get_default_models(provider)
get_default_models(provider) ==
    CASE provider = "openai" -> << "gpt-4", "gpt-4-turbo", "gpt-3.5-turbo" >>
      [] provider = "anthropic" ->
            << "claude-3-opus-20240229", "claude-3-sonnet-20240229",
               "claude-3-haiku-20240307" >>
      [] provider = "google" -> << "gemini-pro", "gemini-ultra" >>
      [] OTHER -> << >>

\* create_default_config(provider)
create_default_config(provider) ==
    [provider |-> provider,
     endpoint |-> get_default_endpoint(provider),
     api_key |-> None,
     models |-> get_default_models(provider),
     settings |-> EmptyMap]

\* set_environment keeping the cache.
set_environment_KeepsCache(c, env) == [c EXCEPT !.environment = env]

\* set_environment(env): the environment is set and the cache cleared.
set_environment(c, env) ==
    [c EXCEPT !.environment = env, !.cache = EmptyMap]

\* get_provider_config(provider): the cached entry when there is one;
\* otherwise the default configuration is inserted under the provider name
\* and returned.  No path returns Err.
get_provider_config(c, provider) ==
    IF provider \in DOMAIN c.cache
    THEN [cfg |-> c, ret |-> Ok(c.cache[provider])]
    ELSE LET config == create_default_config(provider)
             cached == [c EXCEPT !.cache = MapInsert(@, provider, config)]
         IN [cfg |-> cached, ret |-> Ok(cached.cache[provider])]

\* load_config(provider) of the ProviderConfigLoader implementation.
load_config(c, provider) == get_provider_config(c, provider)

\* The adapter after a call, with the call and its outcome noted; `hit` tells
\* whether the cache had an entry under the name when the call was made.
CfgCalled(op, provider, requested, out) ==
    /\ cfg' = [out.cfg EXCEPT !.requested = requested,
                              !.call = [op |-> op, provider |-> provider,
                                        hit |-> provider \in DOMAIN cfg.cache,
                                        ret |-> out.ret]]
    /\ UNCHANGED << runner, tel, cli, fs, clock, io >>

CfgGetProviderConfig ==
    \E provider \in ProviderNames :
        CfgCalled("get_provider_config", provider,
                  cfg.requested \cup {provider},
                  get_provider_config(cfg, provider))

CfgLoadConfig ==
    \E provider \in ProviderNames :
        CfgCalled("load_config", provider, cfg.requested \cup {provider},
                  load_config(cfg, provider))

CfgSetEnvironment ==
    \E env \in Environments :
        CfgCalled("set_environment", env, {},
                  [cfg |-> set_environment(cfg, env), ret |-> Ok(Unit)])

NextCfg == CfgGetProviderConfig \/ CfgLoadConfig \/ CfgSetEnvironment

SpecCfg == InitHub /\ [][NextCfg]_vars

\* ------------------------------------------------------------------------
\* The command line (bin/run_benchmarks.rs)
\* ------------------------------------------------------------------------
\* The text of --targets is a sequence of tokens: an identifier, "," or " ".
CliStdoutLen == 3
CliWorld == [min_reading |-> SuiteTick, max_reading |-> SuiteTick,
             max_stdout |-> CliStdoutLen]

RECURSIVE split(_, _)
\* str::split(','): the pieces between the commas, at least one.
split(text, piece) ==
    IF text = << >> THEN << piece >>
    ELSE IF Head(text) = "," THEN << piece >> \o split(Tail(text), << >>)
    ELSE split(Tail(text), Append(piece, Head(text)))

RECURSIVE trim(_)
\* str::trim(): without the blanks at either end.
trim(piece) ==
    IF piece = << >> THEN piece
    ELSE IF Head(piece) = " " THEN trim(Tail(piece))
    ELSE IF piece[Len(piece)] = " " THEN trim(SubSeq(piece, 1, Len(piece) - 1))
    ELSE piece

\* The &str of a piece: the word when the piece is one word, the empty
\* string, or a text of several words, which is no identifier.
AsStr(piece) ==
    IF Len(piece) = 1 THEN piece[1]
    ELSE IF piece = << >> THEN ""
    ELSE "several words"

\* target_list.split(',').map(|s| s.trim()).collect()
parse_targets(text) ==
    LET pieces == split(text, << >>)
    IN [i \in 1..Len(pieces) |-> AsStr(trim(pieces[i]))]

\* The texts given to --targets: one identifier, two in the reverse of the
\* registry order with blanks, an unknown identifier, one identifier twice,
\* two words in one piece, the empty text.
TargetTexts ==
    { << ProviderId >>,
      << StreamId, ",", " ", ProviderId, " " >>,
      << "unknown", ",", CacheId >>,
      << StreamId, ",", StreamId >>,
      << StreamId, " ", CacheId >>,
      << >> }

\* Cli::parse(): no subcommand, `run` with its options, `list`, `summary`.
CliArgs ==
    {[command |-> "none"], [command |-> "list"], [command |-> "summary"]}
      \cup {[command |-> "run", targets |-> None, save |-> FALSE]}
      \cup {[command |-> "run", targets |-> Ok(t), save |-> TRUE] :
               t \in TargetTexts}

\* What the registry may be: the five adapters, or one more implementation
\* registered after them (the run without a subcommand is followed there).
CliRegistries ==
    {all_targets, RegisteredWith(new(CustomId), Len(all_targets))}

\* The raw directory before the command: nothing, or a results-latest.json
\* that holds one result, or one that is not a result file.
CliFs ==
    { EmptyFs }
      \cup {[EmptyFs EXCEPT !.output_dir = TRUE, !.raw_dir = TRUE,
                            !.raw = WithFile(<< >>, latest_path, file)] :
               file \in {to_string_pretty(<< [target_id |-> "test",
                                              metrics |-> [value |-> 42],
                                              timestamp |-> 0] >>),
                         [json |-> "object"]}}

InitCli ==
    /\ targets \in CliRegistries
    /\ world = CliWorld
    /\ idx = 1
    /\ results = << >>
    /\ now = 0
    /\ rpc = "uncalled"
    /\ tpc = "idle"
    /\ bridge = NoBridge
    /\ ret = None
    /\ sim = NoSim
    /\ trace = << >>
    /\ attempts = 0
    /\ \E a \in CliArgs : cli = [NoCli EXCEPT !.pc = "main", !.args = a]
    /\ fs \in CliFs
    /\ (fs # EmptyFs) => cli.args.command = "summary"
    /\ (targets # all_targets) <=> cli.args.command = "none"
    /\ clock = FirstReading
    /\ io = NoIo
    /\ tel = NoTel
    /\ cfg = NoCfg

\* The process ends with this exit code.
Exit(code) == cli' = [cli EXCEPT !.pc = "exited", !.exit = code]

\* main calls run_benchmarks_command, which calls the runner.
CallRunner(by_id, target_ids, save) ==
    /\ cli' = [cli EXCEPT !.pc = "run", !.by_id = by_id,
                          !.target_ids = target_ids, !.save = save]
    /\ rpc' = "loop"
    /\ UNCHANGED fs

\* show_summary_command: no results-latest.json is not an error, one that
\* cannot be read as results is.
show_summary_command ==
    /\ IF latest_path \notin DOMAIN fs.raw THEN Exit("0")
       ELSE \E float_roundtrip \in BOOLEAN :
               IF read_results_json(fs.raw[latest_path], float_roundtrip).tag = "Ok"
               THEN Exit("0") ELSE Exit("1")
    /\ UNCHANGED << fs, rpc >>

\* main: the subscriber is installed and the current directory read (an Err
\* of either is returned by `?`), then the command is dispatched.
CliMain ==
    /\ cli.pc = "main"
    /\ \/ /\ Exit("1")
          /\ UNCHANGED << fs, rpc >>
       \/ /\ cli.args.command = "none"
          /\ CallRunner(FALSE, << >>, TRUE)
       \/ /\ cli.args.command = "run"
          /\ IF cli.args.targets = None
             THEN CallRunner(FALSE, << >>, cli.args.save)
             ELSE CallRunner(TRUE, parse_targets(cli.args.targets.val),
                             cli.args.save)
       \/ /\ cli.args.command = "list"
          /\ Exit("0")
          /\ UNCHANGED << fs, rpc >>
       \/ /\ cli.args.command = "summary"
          /\ show_summary_command
    /\ UNCHANGED << targets, world, idx, results, now, tpc, bridge, ret, sim,
                    trace, attempts, clock, io, tel, cfg >>

\* CliFinish returning Ok whatever save_results returned.
CliFinish_IgnoresSave ==
    /\ cli.pc = "run"
    /\ rpc = "returned"
    /\ IF cli.save
       THEN \E fault \in SaveFaults :
               LET saved == save_results(fs, results, clock, fault)
               IN /\ fs' = saved.fs
                  /\ cli' = [cli EXCEPT
                               !.pc = "exited",
                               !.saved = IF saved.ret.tag = "Ok" THEN "ok"
                                         ELSE "failed",
                               !.exit = "0"]
       ELSE /\ cli' = [cli EXCEPT !.pc = "exited", !.saved = "skipped",
                                  !.exit = "0"]
            /\ UNCHANGED fs
    /\ UNCHANGED << runner, tel, cfg, clock, io >>

\* run_benchmarks_command after the runner returned: the results are
\* printed, saved when `save` is set (an Err is returned by `?` and by main),
\* and Ok(()) is returned.
CliFinish ==
    /\ cli.pc = "run"
    /\ rpc = "returned"
    /\ IF cli.save
       THEN \E fault \in SaveFaults :
               LET saved == save_results(fs, results, clock, fault)
               IN /\ fs' = saved.fs
                  /\ cli' = [cli EXCEPT
                               !.pc = "exited",
                               !.saved = IF saved.ret.tag = "Ok" THEN "ok"
                                         ELSE "failed",
                               !.exit = IF saved.ret.tag = "Ok" THEN "0"
                                        ELSE "1"]
       ELSE /\ cli' = [cli EXCEPT !.pc = "exited", !.saved = "skipped",
                                  !.exit = "0"]
            /\ UNCHANGED fs
    /\ UNCHANGED << runner, tel, cfg, clock, io >>

\* A panic of the awaited run unwinds through main: nothing is saved and
\* the process ends with the exit code of a panic.
CliAbort ==
    /\ cli.pc = "run"
    /\ rpc = "panicked"
    /\ Exit("101")
    /\ UNCHANGED << runner, tel, cfg, fs, clock, io >>

NextCli ==
    \/ CliMain
    \/ RunnerStart
    \/ RunnerSkip
    \/ TryBridge
    \/ CurrentDir
    \/ CheckNodeModules
    \/ NpmInstall
    \/ SpawnBenchmark
    \/ BenchmarkExits
    \/ BridgeOk
    \/ RunSimulated
    \/ WarmupStep
    \/ WarmupDone
    \/ SampleStep
    \/ PhaseDone
    \/ Summarize
    \/ CustomRun
    \/ RunnerRecord
    \/ RunnerReturn
    \/ CliFinish
    \/ CliAbort

SpecCli == InitCli /\ [][NextCli]_vars

\* The scheduler runs the process while it has a step to take, and a
\* subprocess that was spawned exits.
SpecCliFair == SpecCli /\ WF_vars(NextCli)

\* ------------------------------------------------------------------------
\* Properties of the runner
\* ------------------------------------------------------------------------
\* C1: run_all_benchmarks records one result per target, in registry order:
\* at every moment the results are those of the targets already run, the
\* i-th result carries the id of the i-th target, and the vector that is
\* returned has exactly one result for each of the N targets, whether their
\* runs returned Ok or Err.
C1_OneResultPerTargetInOrder ==
    /\ Len(results) = idx - 1
    /\ Len(results) <= Len(targets)
    /\ \A i \in 1..Len(results) : results[i].target_id = targets[i].id
    /\ rpc = "returned" => Len(results) = Len(targets)

\* A suite of six targets has returned, one of them with a failed run.
C1_Witness ==
    /\ rpc = "returned"
    /\ Len(results) = Len(all_targets) + 1
    /\ \E i \in 1..Len(results) : ~is_success(results[i])

\* C4: when the awaited run returned Err(e), the runner pushes for that
\* target a result with the metrics {error: e, status: "failed"}, which is
\* not a success, and goes on with the loop; the run of the suite ends only
\* after every target has its result.
C4_FailureRecordedAndContained ==
    /\ [][(rpc = "awaiting" /\ tpc = "Done" /\ ret.tag = "Err")
            => /\ Len(results') = Len(results) + 1
               /\ results'[Len(results')].target_id = targets[idx].id
               /\ results'[Len(results')].metrics
                     = [error |-> ret.err, status |-> "failed"]
               /\ ~is_success(results'[Len(results')])
               /\ rpc' = "loop"
               /\ idx' = idx + 1]_vars
    /\ [](rpc = "returned" => Len(results) = Len(targets))
    /\ [](rpc = "panicked" => tpc = "Panicked")

\* A failed result is followed by the result of a later target.
C4_Witness ==
    \E i \in 1..Len(results) :
        /\ i < Len(results)
        /\ results[i].metrics = [error |-> "benchmark failed", status |-> "failed"]
        /\ ~is_success(results[i])

\* ------------------------------------------------------------------------
\* Properties of one run of a target
\* ------------------------------------------------------------------------
\* A run of an adapter is in flight (or has just ended in a panic).
InRun == rpc \in {"awaiting", "panicked"} /\ idx <= Len(targets) /\ IsAdapter

\* The subprocess of the current run has exited, with or without success.
Exited == bridge.spawn = "exited"

\* The text from the first "{" to the last "}" of `out` is one of the JSON
\* objects: `out` is text without "{", then the object, then text without "}".
SpanIs(out, object) ==
    \E a \in 0..Len(out), b \in 0..Len(out) :
        /\ a + Len(object) + b = Len(out)
        /\ SubSeq(out, a + 1, a + Len(object)) = object
        /\ \A i \in 1..a : out[i] # "{"
        /\ \A i \in (Len(out) - b + 1)..Len(out) : out[i] # "}"

SpanParses(out) == SpanIs(out, <<"{", "}">>) \/ SpanIs(out, <<"{", "m", "}">>)

SpanObject(out) == IF SpanIs(out, <<"{", "}">>) THEN ParsedEmpty ELSE ParsedMean

\* The run has returned (the runner has not yet consumed the Result).
Returned == InRun /\ tpc = "Done"

\* C2 as claimed: a non-zero exit of the bridge subprocess makes run fall
\* back to the simulated workload, whose metrics run returns.
C2_NonZeroExitFallsBackToSimulation ==
    (Returned /\ Exited /\ ~bridge.success)
        => /\ sim.runs = 1
           /\ ret.tag = "Ok"
           /\ ret.val.status = "simulated"

\* C2, amended: after a non-zero exit run does not run the simulated
\* workload; it returns Ok with the degraded metrics {status:
\* "ts_benchmark_unavailable", rust_bridge_overhead_ns: elapsed, note}, and
\* the runner records them as a success.
C2_NonZeroExitDegradedSuccess ==
    /\ [](Returned /\ Exited /\ ~bridge.success
            => /\ sim.runs = 0
               /\ ret.tag = "Ok"
               /\ DOMAIN ret.val = {"status", "rust_bridge_overhead_ns", "note"}
               /\ ret.val.status = "ts_benchmark_unavailable"
               /\ ret.val.rust_bridge_overhead_ns = bridge.elapsed)
    /\ [][(Returned /\ Exited /\ ~bridge.success /\ rpc' = "loop")
            => /\ results' = Append(results, results'[Len(results')])
               /\ results'[Len(results')].metrics = ret.val
               /\ is_success(results'[Len(results')])]_vars

\* run has returned after the bridge subprocess exited with a failure status.
C2_Witness == Returned /\ Exited /\ ~bridge.success /\ bridge.elapsed > 0

\* The two paths of a run.
BridgePath == << "Start", "TryBridge", "BridgeSucceeded", "Done" >>
SimulatedPath == << "Start", "TryBridge", "BridgeFailed", "RunSimulated", "Done" >>

IsPrefix(t, path) == Len(t) <= Len(path) /\ t = SubSeq(path, 1, Len(t))

Visited(state) == \E i \in 1..Len(trace) : trace[i] = state

\* What C3 says of the states, of the simulated workload and of the value
\* that is returned (everything but the number of subprocess attempts).
RunFollowsStateMachine ==
    InRun =>
        /\ IsPrefix(trace, BridgePath) \/ IsPrefix(trace, SimulatedPath)
        /\ attempts <= 1
        /\ sim.runs <= 1
        /\ sim.runs = 1 => Visited("BridgeFailed") /\ ~Visited("BridgeSucceeded")
        /\ tpc = "Done" =>
              /\ ret.tag = "Ok"
              /\ Visited("BridgeSucceeded") =>
                    /\ sim.runs = 0
                    /\ Exited
                    /\ ret = BridgeOutcome(Cur.id, bridge.success,
                                           bridge.stdout, bridge.elapsed)
              /\ Visited("BridgeFailed") =>
                    /\ sim.runs = 1
                    /\ ret = Ok(SimulatedMetrics(Cur, sim.raw))

ExitedZero == InRun /\ Exited /\ bridge.success

\* C5 as claimed: for every registered target, when the subprocess exits 0
\* and the text from the first "{" to the last "}" of its output parses as an
\* object, run returns exactly that object.
C5_EveryTargetReturnsParsedObject ==
    (ExitedZero /\ SpanParses(bridge.stdout))
        => /\ tpc \in {"BridgeSucceeded", "Done"}
           /\ ret = Ok(SpanObject(bridge.stdout))

\* C5, amended: that holds for every registered target except
\* stream-parsing, whose run_ts_benchmark never reads the output and returns
\* the synthesized {bridge_execution_ns, status: "completed", source:
\* "rust_bridge"} whatever the subprocess printed.
C5_TargetsButStreamReturnParsedObject ==
    /\ (ExitedZero /\ SpanParses(bridge.stdout) /\ Cur.id # StreamId)
          => /\ tpc \in {"BridgeSucceeded", "Done"}
             /\ ret = Ok(SpanObject(bridge.stdout))
    /\ (ExitedZero /\ Cur.id = StreamId)
          => /\ tpc \in {"BridgeSucceeded", "Done"}
             /\ ret = Ok([bridge_execution_ns |-> bridge.elapsed,
                          status |-> "completed", source |-> "rust_bridge"])

\* run returned {"mean_ns":42}, found between text before and text after it.
C5_Witness ==
    /\ ExitedZero
    /\ tpc = "Done"
    /\ Cur.id # StreamId
    /\ Len(bridge.stdout) = 4
    /\ bridge.stdout[1] = "x"
    /\ ret = Ok([mean_ns |-> 42])

\* C7: when the subprocess exits 0 and its output has no "{" .. "}" span
\* that parses as an object, run still returns Ok with the synthesized
\* metrics: the measured bridge time and the markers status "completed" and
\* source (never a failure, never a crash).
C7_UnparsableOutputDegradesToCompleted ==
    (ExitedZero /\ ~SpanParses(bridge.stdout))
        => /\ tpc \in {"BridgeSucceeded", "Done"}
           /\ ret.tag = "Ok"
           /\ ret.val.status = "completed"
           /\ ret.val.source = "rust_bridge"
           /\ ret.val.bridge_execution_ns = bridge.elapsed
           /\ is_success(BenchmarkResult(Cur.id, ret.val))

\* C6: an empty sample set that reaches the statistics is surfaced as an
\* error: run_simulated returns Err, which the runner records as a failed
\* result; the process does not crash.
C6_EmptySampleSetIsAnError ==
    (InRun /\ sim.runs = 1 /\ Cur.iterations = 0)
        => /\ tpc # "Panicked"
           /\ rpc # "panicked"
           /\ tpc = "Done" => ret.tag = "Err"

\* ------------------------------------------------------------------------
\* Properties of the statistics of a simulated run
\* ------------------------------------------------------------------------
\* run has returned the metrics of the simulated workload.
SimulatedReturned == Returned /\ sim.runs = 1 /\ ret.tag = "Ok"

\* The statistics record of each phase, in the order of Phases(id).
PhaseRecords(id, m) ==
    CASE id = ProviderId -> << m >>
      [] id = RequestId -> << m.request_transform, m.response_transform >>
      [] id = MiddlewareId -> << m.single_middleware, m.pipeline_5_middlewares >>
      [] id = CacheId ->
            << m.key_generation, m.set_operation, m.get_hit, m.get_miss >>
      [] id = StreamId -> << m.chunk_parsing, m.stream_aggregation >>

\* The number of samples below v, and not above v.
Below(r, v) == Cardinality({i \in 1..Len(r) : r[i] < v})
NotAbove(r, v) == Cardinality({i \in 1..Len(r) : r[i] <= v})

\* The element at zero-based index k of the ascending arrangement of r.
Ranked(r, k) ==
    CHOOSE v \in {r[i] : i \in 1..Len(r)} : Below(r, v) <= k /\ k < NotAbove(r, v)

Smallest(r) == CHOOSE v \in {r[i] : i \in 1..Len(r)} : \A i \in 1..Len(r) : v <= r[i]
Largest(r) == CHOOSE v \in {r[i] : i \in 1..Len(r)} : \A i \in 1..Len(r) : v >= r[i]

\* floor(n * pct / 100) clamped to n - 1
ClampedRank(n, pct) ==
    IF (n * pct) \div 100 > n - 1 THEN n - 1 ELSE (n * pct) \div 100

PercentileFields == { <<"p50_ns", 50>>, <<"median_ns", 50>>, <<"p95_ns", 95>>,
                      <<"p99_ns", 99>> }

\* The fields of a record that are reported, in ascending order of rank.
RankOrder == << "min_ns", "p50_ns", "p95_ns", "p99_ns", "max_ns" >>

PhaseStatisticsRight(rec, r) ==
    LET n == Len(r)
    IN /\ n >= 1
       /\ \A f \in PercentileFields :
             /\ (n * f[2]) \div 100 \in 0..(n - 1)
             /\ f[1] \in DOMAIN rec => rec[f[1]] = Ranked(r, ClampedRank(n, f[2]))
       /\ "min_ns" \in DOMAIN rec => rec.min_ns = Smallest(r)
       /\ "max_ns" \in DOMAIN rec => rec.max_ns = Largest(r)
       /\ \A a \in 1..Len(RankOrder), b \in 1..Len(RankOrder) :
             (a < b /\ RankOrder[a] \in DOMAIN rec /\ RankOrder[b] \in DOMAIN rec)
                => rec[RankOrder[a]] <= rec[RankOrder[b]]

\* The sample counts the shipped targets use, for which the selection index
\* is checked as well.
DefaultIterations == 1000

\* For every sample count up to the default one, the index the code selects
\* is the clamped floor(n * p) and lies within 0..n-1.
SelectionIndexInRange ==
    \A n \in 1..DefaultIterations, pct \in {50, 95, 99} :
        /\ PercentileIndex(n, pct) \in 0..(n - 1)
        /\ PercentileIndex(n, pct) = ClampedRank(n, pct)

Throughputs(id, m) ==
    {m.throughput}
      \cup {PhaseRecords(id, m)[k].throughput :
               k \in {j \in 1..Len(PhaseRecords(id, m)) :
                         "throughput" \in DOMAIN PhaseRecords(id, m)[j]}}

\* C8: no throughput of the simulated metrics is computed by dividing by a
\* zero mean: a zero mean is floored to 1 ns, or the computation is rejected
\* with an error.
C8_NoThroughputDividesByZero ==
    (Returned /\ sim.runs = 1)
        => \/ ret.tag = "Err"
           \/ \A t \in Throughputs(Cur.id, ret.val) : t.divisor >= 1

\* The mean_ns of every phase, in the order of Phases(id).
PhaseMeans(id, m) == [k \in 1..Len(PhaseRecords(id, m)) |-> PhaseRecords(id, m)[k].mean_ns]

MultiPhaseIds == {RequestId, MiddlewareId, CacheId, StreamId}

\* C10 as claimed: the top-level mean_ns of every multi-phase benchmark is
\* the unweighted arithmetic mean of the mean_ns of all its phases.
C10_TopMeanIsMeanOfAllPhases ==
    (SimulatedReturned /\ Cur.id \in MultiPhaseIds)
        => ret.val.mean_ns
              = Sum(PhaseMeans(Cur.id, ret.val)) \div Len(PhaseMeans(Cur.id, ret.val))

\* C10, amended: the top-level mean_ns is the (integer) unweighted mean of
\* both phase means for request-transformation only; for cache-operations it
\* is the mean of the key_generation, set_operation and get_hit means, the
\* get_miss phase left out; for middleware-pipeline it is the mean of the
\* pipeline phase alone and for stream-parsing that of the chunk-parsing
\* phase alone.
C10_TopMeanPerBenchmark ==
    SimulatedReturned =>
        LET m == ret.val
        IN /\ Cur.id = RequestId =>
                 m.mean_ns = (m.request_transform.mean_ns
                                + m.response_transform.mean_ns) \div 2
           /\ Cur.id = CacheId =>
                 m.mean_ns = (m.key_generation.mean_ns + m.set_operation.mean_ns
                                + m.get_hit.mean_ns) \div 3
           /\ Cur.id = MiddlewareId => m.mean_ns = m.pipeline_5_middlewares.mean_ns
           /\ Cur.id = StreamId => m.mean_ns = m.chunk_parsing.mean_ns
           /\ \A k \in 1..NumPhases :
                 LET r == sim.raw[Phases(Cur.id)[k]]
                 IN PhaseRecords(Cur.id, m)[k].mean_ns = Sum(r) \div Len(r)

\* cache-operations returned a top-level mean of 1 ns while its four phase
\* means are 1, 1, 1 and 0 ns.
C10_Witness ==
    /\ SimulatedReturned
    /\ Cur.id = CacheId
    /\ PhaseMeans(CacheId, ret.val) = << 1, 1, 1, 0 >>
    /\ ret.val.mean_ns = 1

\* ------------------------------------------------------------------------
\* Properties of the install step
\* ------------------------------------------------------------------------
\* run_ts_benchmark is at, or past, its `npm install` step.
InstallTried == InRun /\ bridge.install # "none"

\* C11 as claimed: a missing node_modules directory triggers the install
\* step, and no failure of that step (the command cannot be started, or it
\* exits with a failure) is propagated: the benchmark subprocess is attempted
\* next.
C11_InstallFailureNeverPropagated ==
    [][(InRun /\ tpc = "Install")
          => (tpc' = "Spawn" /\ ret' = ret)]_vars

\* C11, amended: only provider-resolution has the install step; an install
\* that exits with a failure is only logged and the benchmark subprocess is
\* attempted next, but an install command that cannot be started makes
\* run_ts_benchmark return the error "Failed to run npm install" with the
\* benchmark subprocess never attempted (run then falls back to the
\* simulated workload).
C11_InstallExitLoggedSpawnErrorReturned ==
    /\ [][(InRun /\ tpc = "Install") =>
            /\ bridge.node_modules = "missing"
            /\ bridge'.install \in {"succeeded", "failed", "not_started"}
            /\ bridge'.install \in {"succeeded", "failed"}
                  => (tpc' = "Spawn" /\ ret' = ret /\ trace' = trace)
            /\ bridge'.install = "not_started"
                  => /\ ret' = Err("Failed to run npm install")
                     /\ tpc' = "BridgeFailed"
                     /\ attempts' = 0]_vars
    /\ [](InstallTried => Cur.id = ProviderId)
    /\ []((InstallTried /\ bridge.install = "not_started")
             => (attempts = 0 /\ tpc = "BridgeFailed"))
    /\ []((InRun /\ Cur.id = ProviderId /\ tpc = "Spawn"
             /\ bridge.node_modules = "missing")
             => bridge.install \in {"succeeded", "failed"})
    /\ [][(InRun /\ tpc = "BridgeFailed" /\ bridge.install = "not_started")
             => (tpc' = "Warmup" /\ attempts' = 0)]_vars

\* The install exited with a failure and the benchmark subprocess was
\* started all the same.
C11_Witness ==
    /\ InRun
    /\ bridge.node_modules = "missing"
    /\ bridge.install = "failed"
    /\ bridge.spawn = "running"
    /\ attempts = 1

\* ------------------------------------------------------------------------
\* Properties of the result store
\* ------------------------------------------------------------------------
\* The most recent call of save_results returned Ok.
LastSaveOk == io.last.op = "save" /\ io.last.ret.tag = "Ok"

\* C13: after successful saves, results-latest.json holds exactly the result
\* sequence of the most recent save (reading it gives that sequence back), it
\* is identical to the timestamped history file that save wrote, and no save
\* deletes the latest file.
C13_LatestIsMostRecentSave ==
    /\ [](LastSaveOk =>
            /\ latest_path \in DOMAIN fs.raw
            /\ fs.raw[latest_path] = to_string_pretty(io.last.results)
            /\ json_path(io.last.secs) \in DOMAIN fs.raw
            /\ fs.raw[json_path(io.last.secs)] = fs.raw[latest_path])
    /\ [][(latest_path \in DOMAIN fs.raw) => (latest_path \in DOMAIN (fs'.raw))]_vars

\* Two saves at different seconds, both Ok, of different result sequences:
\* the latest file is the second one's and the first history file is not.
C13_Witness ==
    /\ io.saves = 2
    /\ io.oks = 2
    /\ Len(io.written) = 2
    /\ io.written[1] # io.written[2]
    /\ Len(io.last.results) = 2
    /\ fs.raw[latest_path] = to_string_pretty(io.last.results)
    /\ fs.raw[json_path(io.written[1])] # fs.raw[latest_path]

\* ------------------------------------------------------------------------
\* Properties of BenchmarkResult::is_success
\* ------------------------------------------------------------------------
\* The metrics maps whose top-level status entry is the string "failed".
StatusFailed ==
    { [status |-> "failed"],
      [error |-> "benchmark failed", status |-> "failed"] }

\* C16: is_success is false exactly when the metrics have a top-level status
\* entry equal to "failed"; no status, or any other status ("simulated",
\* "completed", "ts_benchmark_unavailable"), is a success.
C16_FailedStatusOnly ==
    /\ io.call.op = "is_success"
          => /\ io.call.ret = (io.call.metrics \notin StatusFailed)
             /\ ("status" \notin DOMAIN io.call.metrics) => io.call.ret
             /\ ("status" \in DOMAIN io.call.metrics
                   /\ io.call.metrics.status
                         \in {"simulated", "completed", "ts_benchmark_unavailable"})
                   => io.call.ret
    /\ \A i \in 1..Len(results) :
          is_success(results[i])
             = ~("status" \in DOMAIN results[i].metrics
                   /\ results[i].metrics.status = "failed")

\* is_success returned false for the metrics the runner writes for an Err.
C16_Witness ==
    /\ io.call.op = "is_success"
    /\ io.call.metrics = ErrorMetrics("benchmark failed")
    /\ io.call.ret = FALSE

\* is_success returned true for metrics with "failed" below the top level.
C16_NestedWitness ==
    /\ io.call.op = "is_success"
    /\ io.call.metrics = [status |-> "simulated", get_hit |-> [status |-> "failed"]]
    /\ io.call.ret = TRUE

\* ------------------------------------------------------------------------
\* Properties of write_results_json and read_results_json
\* ------------------------------------------------------------------------
\* The results differ in nothing: length, identifiers, metrics, timestamps.
SameResults(a, b) ==
    /\ Len(a) = Len(b)
    /\ \A i \in 1..Len(a) :
          /\ a[i].target_id = b[i].target_id
          /\ a[i].metrics = b[i].metrics
          /\ a[i].timestamp = b[i].timestamp

\* The file was written by write_results_json and is read next.
ReadsWhatWasWritten ==
    /\ io.call.op = "write"
    /\ io.call.ret.tag = "Ok"
    /\ io'.call.op = "read"
    /\ io'.call.path = "scratch"

ReadsForeignFile ==
    /\ io.call.op = "read"
    /\ io.call.path = "scratch"
    /\ fs.scratch \in ForeignFiles \cup {Absent}

\* C17: write_results_json followed by read_results_json on the same path
\* returns a sequence of the same length with the same target_id, deep-equal
\* metrics and equal timestamp at every position; reading a file whose
\* structure does not match the result schema returns an error.
C17_WriteThenReadIsIdentity ==
    /\ [][ReadsWhatWasWritten
             => /\ io'.call.ret.tag = "Ok"
                /\ SameResults(io'.call.ret.val, io.call.results)]_vars
    /\ [](ReadsForeignFile => io.call.ret.tag = "Err")

\* What holds of the round trip in either build: lengths, identifiers,
\* timestamps and every entry of the metrics that is not an f64.
C17_RoundTripButFloats ==
    /\ [][ReadsWhatWasWritten
             => /\ io'.call.ret.tag = "Ok"
                /\ Len(io'.call.ret.val) = Len(io.call.results)
                /\ \A i \in 1..Len(io.call.results) :
                      LET r == io'.call.ret.val[i]
                          w == io.call.results[i]
                      IN /\ r.target_id = w.target_id
                         /\ r.timestamp = w.timestamp
                         /\ DOMAIN r.metrics = DOMAIN w.metrics
                         /\ \A k \in DOMAIN w.metrics :
                               (~IsF64(k) \/ io'.call.float_roundtrip)
                                  => r.metrics[k] = w.metrics[k]]_vars
    /\ [](ReadsForeignFile => io.call.ret.tag = "Err")

\* Two results with nanosecond and millisecond timestamps were read back.
C17_Witness ==
    /\ io.call.op = "read"
    /\ io.call.path = "scratch"
    /\ io.call.ret.tag = "Ok"
    /\ Len(io.call.ret.val) = 2
    /\ io.call.ret.val[1].timestamp = 1
    /\ io.call.ret.val[2].timestamp = 1500000
    /\ fs.scratch = to_string_pretty(io.call.ret.val)

\* The throughput 1e9 / 63 was read back as the neighbouring f64.
C17_FloatWitness ==
    /\ io.call.op = "read"
    /\ io.call.path = "scratch"
    /\ io.call.ret.tag = "Ok"
    /\ Len(io.call.ret.val) = 1
    /\ io.call.ret.val[1].metrics.throughput.json = "neighbour"

\* ------------------------------------------------------------------------
\* Properties of list_result_files
\* ------------------------------------------------------------------------
RECURSIVE HistoryWritten(_)
\* The names of the history files the saves created, in the order in which
\* they were first written.
HistoryWritten(secs) ==
    IF secs = << >> THEN << >>
    ELSE LET before == HistoryWritten(SubSeq(secs, 1, Len(secs) - 1))
             name == json_path(secs[Len(secs)])
         IN IF \E i \in 1..Len(before) : before[i] = name THEN before
            ELSE Append(before, name)

IsHistory(name) == \E i \in 1..Len(io.written) : json_path(io.written[i]) = name

Listed == io.call.op = "list" /\ io.call.ret.tag = "Ok"

RawDirMissingIsEmpty ==
    (io.call.op = "list" /\ ~fs.raw_dir) => io.call.ret = Ok(<< >>)

\* C18: list_result_files returns the history files of the raw directory,
\* in lexicographic order, which is the order in which the saves wrote
\* them; it returns an empty sequence when the raw directory is missing.
C18_ListingIsTheHistory ==
    /\ Listed => io.call.ret.val = HistoryWritten(io.written)
    /\ RawDirMissingIsEmpty

\* What the listing is: every file of the raw directory named *.json,
\* sorted by name.  The history files are among them in the order in which
\* the saves wrote them, results-latest.json follows them once a save has
\* written it, and other .json files are listed as well; a file without
\* the extension is not, and a missing raw directory gives an empty listing.
C18_ListingIsEveryJsonFile ==
    /\ (Listed /\ fs.raw_dir) =>
          LET l == io.call.ret.val
          IN /\ SelectSeq(l, IsHistory) = HistoryWritten(io.written)
             /\ \A i, j \in 1..Len(l) : i < j => LexLess(l[i], l[j])
             /\ \A n \in DOMAIN fs.raw :
                   (\E i \in 1..Len(l) : l[i] = n) <=> extension(n) = Tail(JsonSuffix)
             /\ \A i \in 1..Len(l) : l[i] \in DOMAIN fs.raw
             /\ latest_path \in DOMAIN fs.raw =>
                   /\ l[Len(l)] = latest_path
                   /\ Len(l) > Len(HistoryWritten(io.written))
    /\ RawDirMissingIsEmpty

\* Two saves a second apart, across the carry of the seconds' digits, and
\* the listing has the two history files in that order, then the latest.
C18_Witness ==
    /\ Listed
    /\ io.written = << FirstReading, FirstReading + 1 >>
    /\ other_json_path \notin DOMAIN fs.raw
    /\ io.call.ret.val = << json_path(FirstReading), json_path(FirstReading + 1),
                            latest_path >>

\* The listing of a missing raw directory.
C18_MissingWitness ==
    /\ io.call.op = "list"
    /\ ~fs.raw_dir
    /\ io.call.ret = Ok(<< >>)

\* ------------------------------------------------------------------------
\* Properties of the runner: order, selection, registry
\* ------------------------------------------------------------------------
TargetIds(rs) == [i \in 1..Len(rs) |-> rs[i].target_id]
RegisteredIds(ts) == [i \in 1..Len(ts) |-> ts[i].id]

\* The identifiers --targets names.
Named == {cli.target_ids[i] : i \in 1..Len(cli.target_ids)}

RECURSIVE Due(_)
\* The identifiers of the first k registered targets the run is to execute:
\* all of them, or those --targets names.
Due(k) ==
    IF k = 0 THEN << >>
    ELSE IF ~cli.by_id \/ targets[k].id \in Named
    THEN Append(Due(k - 1), targets[k].id)
    ELSE Due(k - 1)

\* A target is at work: its run() was called and has not been recorded.
AtWork == tpc # "idle"

\* run() of the awaited target spawns its subprocess or begins to sample.
BeginsWork == attempts' > attempts \/ sim'.runs > sim.runs

\* C12: the targets of a run execute strictly one after another: the only
\* target at work is the one the runner awaits, and it starts (its
\* subprocess is spawned, its sampling begins) only after the result of
\* every target executed before it has been recorded.
C12_OneTargetAtATime ==
    /\ [](AtWork => /\ rpc \in {"awaiting", "panicked"}
                    /\ idx <= Len(targets)
                    /\ TargetIds(results) = Due(idx - 1))
    /\ [](~AtWork => bridge.spawn # "running" /\ sim = NoSim)
    /\ [][BeginsWork => /\ rpc = "awaiting"
                        /\ TargetIds(results) = Due(idx - 1)
                        /\ UNCHANGED << idx, results >>]_vars

\* The subprocess of the second target runs, the first result is recorded.
C12_Witness ==
    /\ ~cli.by_id
    /\ idx = 2
    /\ bridge.spawn = "running"
    /\ TargetIds(results) = << ProviderId >>

\* C14: run_benchmarks_by_id executes exactly the registered targets whose
\* id is in the list, each once and in registry order; an id that matches
\* no registered target produces no result and no error.
C14_ExactlyTheNamedTargetsInRegistryOrder ==
    (cli.by_id /\ rpc = "returned") =>
        /\ TargetIds(results) = SelectSeq(RegisteredIds(targets), LAMBDA id : id \in Named)
        /\ \A i, j \in 1..Len(results) :
              i # j => results[i].target_id # results[j].target_id
        /\ \A i \in 1..Len(results) :
              \E k \in 1..Len(targets) : targets[k].id = results[i].target_id
        /\ Len(results) <= Len(cli.target_ids)

\* "stream-parsing, provider-resolution " was given and the results are
\* those of provider-resolution and stream-parsing, in that order.
C14_Witness ==
    /\ cli.by_id
    /\ rpc = "returned"
    /\ cli.target_ids = << StreamId, ProviderId >>
    /\ TargetIds(results) = << ProviderId, StreamId >>

\* An unknown identifier was given with a known one: one result, no error.
C14_UnknownWitness ==
    /\ cli.by_id
    /\ cli.pc = "exited"
    /\ cli.exit = "0"
    /\ cli.target_ids = << "unknown", CacheId >>
    /\ TargetIds(results) = << CacheId >>

RegistryIds == RegisteredIds(all_targets)

\* C15: the registered target list is non-empty, every id is non-empty and
\* the ids are pairwise distinct; so the results of run_all_benchmarks have
\* pairwise distinct target_id values.
C15_RegistryIdsDistinct ==
    /\ Len(all_targets) > 0
    /\ \A i \in 1..Len(all_targets) : RegistryIds[i] # ""
    /\ \A i, j \in 1..Len(all_targets) : i # j => RegistryIds[i] # RegistryIds[j]
    /\ (targets = all_targets /\ ~cli.by_id) =>
          \A i, j \in 1..Len(results) :
             i # j => results[i].target_id # results[j].target_id

\* run_all_benchmarks returned the results of the registered targets.
C15_Witness ==
    /\ targets = all_targets
    /\ rpc = "returned"
    /\ Len(results) = Len(all_targets)
    /\ Cardinality({results[i].target_id : i \in 1..Len(results)}) = 5

\* ------------------------------------------------------------------------
\* Properties of the run command
\* ------------------------------------------------------------------------
RunExited == cli.pc = "exited" /\ cli.args.command \in {"none", "run"}

\* main returned the error of its own set-up before the runner was called.
SetupFailed == cli.pc = "exited" /\ rpc = "uncalled"

\* C19: the run command exits non-zero only on an unrecoverable setup
\* error (saving the results fails); whatever number of results are failed,
\* the exit code is zero whenever saving succeeds or is disabled.
C19_NonZeroExitOnlyWhenSetupFails ==
    RunExited =>
        /\ cli.exit # "0" => (cli.saved = "failed" \/ SetupFailed)
        /\ (rpc # "uncalled" /\ cli.saved # "failed") => cli.exit = "0"

\* What holds of the exit code: failed results never change it; it is zero
\* when the runner returned and the save succeeded or was disabled, one when
\* the set-up or the save failed, and that of a panic when a target's run
\* panicked.
C19_ExitCodes ==
    RunExited =>
        /\ cli.exit = "0" <=> (rpc = "returned" /\ cli.saved \in {"ok", "skipped"})
        /\ cli.exit = "1" <=> (SetupFailed \/ cli.saved = "failed")
        /\ cli.exit = "101" <=> rpc = "panicked"
        /\ cli.saved = "skipped" <=> (rpc = "returned" /\ ~cli.save)

\* The run exited zero with a failed result saved.
C19_Witness ==
    /\ RunExited
    /\ cli.exit = "0"
    /\ cli.saved = "ok"
    /\ \E i \in 1..Len(results) : ~is_success(results[i])

\* The run exited with the code of a panic: a subprocess printed `}x{`.
C19_PanicWitness ==
    /\ RunExited
    /\ cli.exit = "101"
    /\ bridge.stdout = << "}", "x", "{" >>

\* ------------------------------------------------------------------------
\* Termination of a run
\* ------------------------------------------------------------------------
AllRun == rpc = "loop" /\ ~cli.by_id /\ idx = 1
AllReturned == rpc = "returned" /\ Len(results) = Len(targets)

\* While a subprocess has not exited, the runner does nothing: no result is
\* recorded, no other target is started, the run does not return.
StalledWhileRunning ==
    [][(bridge.spawn = "running" /\ bridge'.spawn = "running")
          => UNCHANGED << idx, results, rpc, tpc, attempts, sim >>]_vars

\* C20: provided every spawned subprocess eventually exits,
\* run_all_benchmarks eventually returns with one result per target; while
\* a subprocess has not exited, no later target is started and the run does
\* not complete.
C20_RunEventuallyReturns ==
    /\ AllRun ~> AllReturned
    /\ StalledWhileRunning

\* What holds: the run returns with one result per target or ends in a
\* panic, and it is stalled while a subprocess runs.
C20_ReturnsOrPanics ==
    /\ AllRun ~> (AllReturned \/ rpc = "panicked")
    /\ StalledWhileRunning

\* The last target's subprocess is running, four results are recorded.
C20_Witness ==
    /\ ~cli.by_id
    /\ bridge.spawn = "running"
    /\ idx = 5
    /\ Len(results) = 4

\* ------------------------------------------------------------------------
\* Properties of the middleware overhead
\* ------------------------------------------------------------------------
\* The simulated middleware workload took its samples and reached the
\* statistics: it returned or it panicked there.
MiddlewareSummarized ==
    /\ InRun
    /\ Cur.id = MiddlewareId
    /\ Cur.iterations > 0
    /\ sim.runs = 1
    /\ sim.phase > NumPhases
    /\ tpc \in {"Done", "Panicked"}

SingleMean == Mean(sim.raw["single_times"])
PipelineMean == Mean(sim.raw["pipeline_times"])

\* C24: overhead_per_middleware_ns is (pipeline_mean - single_mean) / 4 for
\* every pair of sample sets, computed without unsigned underflow, also
\* when pipeline_mean is smaller than single_mean.
C24_OverheadWithoutUnderflow ==
    MiddlewareSummarized =>
        /\ tpc = "Done"
        /\ ret.tag = "Ok"
        /\ LET overhead == ret.val.pipeline_5_middlewares.overhead_per_middleware_ns
           IN /\ overhead >= 0
              /\ overhead = IF PipelineMean >= SingleMean
                            THEN (PipelineMean - SingleMean) \div 4
                            ELSE 0

\* What holds: the quotient is as claimed whenever pipeline_mean is not
\* below single_mean.
C24_OverheadWhenNotBelow ==
    (MiddlewareSummarized /\ PipelineMean >= SingleMean) =>
        /\ tpc = "Done"
        /\ ret.tag = "Ok"
        /\ ret.val.pipeline_5_middlewares.overhead_per_middleware_ns
              = (PipelineMean - SingleMean) \div 4

\* pipeline_mean is below single_mean and the subtraction panicked.
C24_PanicWitness ==
    /\ MiddlewareSummarized
    /\ PipelineMean < SingleMean
    /\ tpc = "Panicked"

\* pipeline_mean is below single_mean and the subtraction wrapped.
C24_WrapWitness ==
    /\ MiddlewareSummarized
    /\ PipelineMean < SingleMean
    /\ tpc = "Done"
    /\ ret.val.pipeline_5_middlewares.overhead_per_middleware_ns < 0

\* ------------------------------------------------------------------------
\* Properties of the history files
\* ------------------------------------------------------------------------
\* The files of the raw directory that the saves wrote as history.
HistoryFiles ==
    DOMAIN fs.raw \ {latest_path, notes_path, other_json_path}

\* This step is a call of save_results that returned Ok.
SaveSucceeds ==
    /\ io'.saves = io.saves + 1
    /\ io'.call.op = "save"
    /\ io'.call.ret.tag = "Ok"

\* The history files other than `name` are as they were.
OthersUnchanged(name) ==
    \A n \in HistoryFiles \ {name} :
       n \in DOMAIN (fs'.raw) /\ (fs'.raw)[n] = fs.raw[n]

\* C29: every successful save creates a new timestamped history file and
\* leaves the history files of earlier saves unchanged, so after k
\* successful saves there are k history files, also when two saves happen
\* within the same second.
C29_EverySaveAddsAHistoryFile ==
    /\ [][SaveSucceeds =>
             /\ json_path(io'.call.secs) \notin DOMAIN fs.raw
             /\ json_path(io'.call.secs) \in DOMAIN (fs'.raw)
             /\ OthersUnchanged(json_path(io'.call.secs))]_vars
    /\ [](io.oks = io.saves => Cardinality(HistoryFiles) = io.oks)

\* What holds: a successful save writes the history file named by the second
\* of its clock reading and leaves the history files of other seconds
\* unchanged; a save in the second of an earlier save replaces that save's
\* file, so there is one history file for each second in which a save wrote.
C29_OneHistoryFilePerSecond ==
    /\ [][SaveSucceeds =>
             /\ json_path(io'.call.secs) \in DOMAIN (fs'.raw)
             /\ (fs'.raw)[json_path(io'.call.secs)]
                   = to_string_pretty(io'.call.results)
             /\ OthersUnchanged(json_path(io'.call.secs))]_vars
    /\ [](/\ Cardinality(HistoryFiles)
               = Cardinality({io.written[i] : i \in 1..Len(io.written)})
          /\ HistoryFiles = {json_path(io.written[i]) : i \in 1..Len(io.written)})

\* Two successful saves of different results a second apart: two history
\* files, the first as the first save wrote it.
C29_Witness ==
    /\ io.oks = 2
    /\ io.written = << FirstReading, FirstReading + 1 >>
    /\ Cardinality(HistoryFiles) = 2
    /\ fs.raw[json_path(FirstReading)] # fs.raw[json_path(FirstReading + 1)]
    /\ fs.raw[json_path(FirstReading + 1)] = to_string_pretty(io.last.results)

\* Two successful saves within one second: one history file.
C29_SameSecondWitness ==
    /\ io.oks = 2
    /\ io.written = << FirstReading, FirstReading >>
    /\ Cardinality(HistoryFiles) = 1

\* ------------------------------------------------------------------------
\* Properties of the sample sets and of the cache of a simulated run
\* ------------------------------------------------------------------------
\* run_simulated is called in this step.
SimulationStarts == sim'.runs = sim.runs + 1

\* The timed loops of the simulated run are over.
SamplingOver ==
    /\ InRun
    /\ sim.runs = 1
    /\ \/ tpc = "Done"
       \/ tpc \in {"Sampling", "Panicked"} /\ sim.phase > NumPhases

\* C25: in a simulated run every phase's sample set is created empty at the
\* start of the invocation and ends with exactly `iterations` samples, one
\* per timed iteration and none from the warm-up loop, whatever
\* warmup_iterations is; running the same target again starts from empty
\* sample sets and leaves iterations and warmup_iterations unchanged.
C25_FreshSampleSetsOfIterationsSamples ==
    /\ [][SimulationStarts =>
             /\ sim.times = << >>
             /\ \A p \in PhaseSet(Cur.id) :
                   (sim'.times)[p] = << >> /\ (sim'.raw)[p] = << >>]_vars
    /\ [][tpc = "Warmup" => (sim'.times = sim.times /\ sim'.raw = sim.raw)]_vars
    /\ [][(tpc = "Sampling" /\ sim'.i = sim.i + 1) =>
             \A p \in PhaseSet(Cur.id) :
                Len((sim'.raw)[p]) = Len(sim.raw[p])
                   + (IF p = Phases(Cur.id)[sim.phase] THEN 1 ELSE 0)]_vars
    /\ [](SamplingOver =>
             \A p \in PhaseSet(Cur.id) :
                /\ Len(sim.raw[p]) = Cur.iterations
                /\ Len(sim.times[p]) = Cur.iterations)
    /\ [][targets' = targets]_vars

\* The second run of a cache-operations target with two iterations and one
\* warm-up iteration returned, after the first run was recorded.
C25_Witness ==
    /\ idx = 2
    /\ Len(results) = 1
    /\ "status" \in DOMAIN results[1].metrics
    /\ results[1].metrics.status = "simulated"
    /\ Cur = with_iterations(CacheId, 2, 1)
    /\ targets[1] = targets[2]
    /\ sim.runs = 1
    /\ tpc = "Done"
    /\ \A p \in PhaseSet(CacheId) : Len(sim.raw[p]) = 2

\* A timed lookup of the cache-operations workload is made in this step.
TimedLookup(phase) ==
    /\ InRun
    /\ Cur.id = CacheId
    /\ tpc = "Sampling"
    /\ sim.phase <= NumPhases
    /\ Phases(CacheId)[sim.phase] = phase
    /\ sim'.i = sim.i + 1

\* C26: in the simulated cache benchmark the cache map is local to the
\* invocation, every timed GET-hit lookup is for a key that is in the map
\* at that moment and every timed GET-miss lookup is for a key that is not.
C26_HitsPresentMissesAbsent ==
    /\ [][TimedLookup("get_hit_times") =>
             /\ generate_cache_key(sim.i) \in DOMAIN sim.cache
             /\ sim'.last_get = "some"]_vars
    /\ [][TimedLookup("get_miss_times") =>
             /\ nonexistent_key(sim.i) \notin DOMAIN sim.cache
             /\ sim'.last_get = "absent"]_vars
    /\ [][SimulationStarts => sim'.cache = EmptyMap]_vars
    /\ [](tpc = "idle" => sim = NoSim)

\* The second timed GET-hit and the second GET-miss lookup were made.
C26_Witness ==
    /\ InRun
    /\ Cur = with_iterations(CacheId, 2, 1)
    /\ tpc = "Sampling"
    /\ sim.phase = 4
    /\ sim.i = 2
    /\ sim.last_get = "absent"
    /\ Cardinality(DOMAIN sim.cache) = 2

\* ------------------------------------------------------------------------
\* Properties of parse_sse_chunk and aggregate_chunks
\* ------------------------------------------------------------------------
RECURSIVE ContentInOrder(_)
\* The texts of the chunks that carry content, joined in sequence order.
ContentInOrder(cs) ==
    IF cs = << >> THEN << >>
    ELSE (IF Head(cs).class = "content" THEN Head(cs).text ELSE << >>)
            \o ContentInOrder(Tail(cs))

\* C27: parse_sse_chunk yields no content for the terminal sentinel line and
\* for a line without the stream marker or without the nested text field;
\* aggregate_chunks of a chunk sequence is the concatenation, in sequence
\* order, of the texts parse_sse_chunk extracts from the chunks with content.
C27_SentinelSkippedTextsConcatenated ==
    /\ io.call.op = "parse_sse_chunk" =>
          io.call.ret = IF io.call.chunk.class = "content"
                        THEN Some(io.call.chunk.text) ELSE None
    /\ io.call.op = "aggregate_chunks" =>
          io.call.ret = ContentInOrder(io.call.chunks)
    /\ io.call.op = "aggregate_simulated" =>
          io.call.ret = << "Hello", " world", "!" >>

\* Three chunks were aggregated: content, the sentinel, content.
C27_Witness ==
    /\ io.call.op = "aggregate_chunks"
    /\ Len(io.call.chunks) = 3
    /\ io.call.chunks[1].class = "content"
    /\ io.call.chunks[2].class = "sentinel"
    /\ io.call.chunks[3].text = << "!" >>
    /\ io.call.ret = << "Hello", "!" >>

\* ------------------------------------------------------------------------
\* Properties of the SpanAdapter
\* ------------------------------------------------------------------------
\* The ids of the active spans.
Active == DOMAIN tel.active_spans

\* The step is a call of start_provider_span.
Starts == tel'.call.op = "start_provider_span"

\* The step is a call of finish_span.
Finishes == tel'.call.op = "finish_span"

\* C21: with telemetry enabled start_provider_span returns a non-empty id and
\* adds exactly one active span, under that id; with telemetry disabled it
\* returns the empty id and adds none; finish_span returning Ok with telemetry
\* enabled removes exactly the span of its id; and the number of active spans
\* is that of the spans started minus that of the spans so finished.
C21_ActiveIsStartedMinusFinished ==
    [][/\ (Starts /\ tel.enabled) =>
             /\ tel'.call.id # EmptyString
             /\ tel'.call.id \notin Active
             /\ Active' = Active \cup {tel'.call.id}
             /\ \A id \in Active : tel'.active_spans[id] = tel.active_spans[id]
       /\ (Starts /\ ~tel.enabled) =>
             /\ tel'.call.id = EmptyString
             /\ tel'.active_spans = tel.active_spans
       /\ (Finishes /\ tel.enabled /\ tel'.call.ret.tag = "Ok") =>
             /\ tel'.call.id \in Active
             /\ Active' = Active \ {tel'.call.id}
       /\ Cardinality(Active') =
             Cardinality(tel'.issued) - Cardinality(tel'.finished)]_vars

\* Two spans were started and the first of them was finished.
C21_Witness ==
    /\ tel.enabled
    /\ tel.call = [op |-> "finish_span", id |-> Uuid(1), ret |-> Ok(Unit)]
    /\ tel.issued = {Uuid(1), Uuid(2)}
    /\ Active = {Uuid(2)}

\* start_provider_span was called with telemetry disabled, one span active.
C21_DisabledWitness ==
    /\ ~tel.enabled
    /\ tel.call.op = "start_provider_span"
    /\ tel.call.id = EmptyString
    /\ Active = {Uuid(1)}

\* C28: whenever finish_span(id) returns Ok the id is not among the active
\* spans, whatever set_enabled, start_provider_span and finish_span calls
\* came before.
C28_FinishedIsNotActive ==
    (tel.call.op = "finish_span" /\ tel.call.ret.tag = "Ok")
        => tel.call.id \notin Active

\* finish_span returned Ok for a span started while telemetry was enabled
\* and finished after it was disabled: the span is still active.
C28_LeakWitness ==
    /\ ~tel.enabled
    /\ tel.call = [op |-> "finish_span", id |-> Uuid(1), ret |-> Ok(Unit)]
    /\ Uuid(1) \in Active

\* The record_* functions and finish_span.
SpanOps ==
    {"record_request", "record_response", "record_usage", "record_cost",
     "record_event", "finish_span"}

\* C30: with telemetry enabled a record_* call or a finish_span with a span
\* id that is not active returns the Observatory "Span not found" error and
\* leaves the active spans as they were; an id finish_span has removed is not
\* active, so a second finish_span on it fails.
C30_SpanNotFoundLeavesSpansUnchanged ==
    [][/\ (/\ tel.enabled
           /\ tel'.call.op \in SpanOps
           /\ tel'.call.id \notin Active) =>
             /\ tel'.call.ret = SpanNotFound(tel'.call.id)
             /\ tel'.active_spans = tel.active_spans
       /\ tel'.finished \cap Active' = {}]_vars

\* A second finish_span on a finished id failed while another span is active.
C30_Witness ==
    /\ tel.enabled
    /\ tel.call.op = "finish_span"
    /\ tel.call.id \in tel.finished
    /\ tel.call.ret = SpanNotFound(tel.call.id)
    /\ Active # {}

\* record_usage failed for an id that was never issued.
C30_NeverStartedWitness ==
    /\ tel.enabled
    /\ tel.call.op = "record_usage"
    /\ tel.call.id = Uuid(MaxSpans + 1)
    /\ tel.call.ret.tag = "Err"
    /\ Active # {}

\* ------------------------------------------------------------------------
\* Properties of the ConfigAdapter
\* ------------------------------------------------------------------------
\* The step is a call of get_provider_config, directly or through load_config.
Gets == cfg'.call.op \in {"get_provider_config", "load_config"}

C22_ClearedWitness ==
    /\ cfg.call.op = "set_environment"
    /\ cfg.cache = EmptyMap
    /\ cfg.environment = "development"

\* C23: get_provider_config for a provider name that is not a known provider
\* returns an error and adds no cache entry.
C23_UnknownProviderIsAnError ==
    [][(Gets /\ cfg'.call.provider \notin KnownProviders) =>
          /\ cfg'.call.ret.tag = "Err"
          /\ cfg'.cache = cfg.cache]_vars

\* An unknown provider was requested: Ok was returned with a configuration
\* without endpoint and models, and it is cached.
C23_CachedWitness ==
    /\ cfg.call.op = "get_provider_config"
    /\ cfg.call.provider = "unknown-llm"
    /\ ~cfg.call.hit
    /\ cfg.call.ret =
          Ok([provider |-> "unknown-llm", endpoint |-> None, api_key |-> None,
              models |-> << >>, settings |-> EmptyMap])
    /\ "unknown-llm" \in DOMAIN cfg.cache

====
